---- MODULE Spec2Model ----
(***************************************************************************)
(* Model of the INSECA live environment library (lib/Live.py): the unlock  *)
(* chain of BootProcessWKS, the integrity fingerprint, the Environ         *)
(* unlocked status and the BootProcessWKS singleton accessor (Spec,        *)
(* SpecObjects), prepare_shutdown (SpecShutdown), the extraction of        *)
(* PRIVDATA and of the live configuration (SpecExtract) and the users      *)
(* management functions over blob0.json (SpecStore).                       *)
(***************************************************************************)
EXTENDS Integers, Sequences, FiniteSets, TLC

VARIABLES
    dev,        \* content of the block device (gap, table, dummy, EFI, live, metadata)
    blob0json,  \* dummy:/resources/blob0.json: "missing" or the ordered slots
    mounted,    \* partition ids currently mounted
    secrets,    \* partition ids whose secret has been set
    dataDir,    \* TRUE when the /data directory exists
    envs,       \* the Environ objects of the process
    instances,  \* the BootProcessWKS objects of the process
    singleton,  \* BootProcessWKS.__instance: 0 (None) or an index in instances
    returned,   \* value returned by the last get_instance / construction
    pc,         \* position of the (single threaded) unlock() execution
    self,       \* instance on which unlock() runs
    loc,        \* local variables of the running unlock()
    trace,      \* device and post-unlock operations of the current unlock()
    result,     \* outcome of the last unlock(): what its caller sees
    events,     \* calls received by the event sink during the current unlock()
    syslogged,  \* error messages written to syslog during the current unlock()
    calls,      \* number of unlock() calls made so far
    binds,      \* destinations of the data map currently bind mounted
    tmpfiles,   \* temporary files that exist, each with what it holds
    fs,         \* files of the root file system the library looks for
    libcall,    \* the library call last made outside unlock(), with its locals
    builder,    \* the Builder object, its build directory and its container
    form,       \* the format page: the Params object, its widgets, the button
    sink,       \* the Events object, the events database and /internal
    racers      \* the users management calls under way, one per process

vars == <<dev, blob0json, mounted, secrets, dataDir, envs, instances, singleton,
          returned, pc, self, loc, trace, result, events, syslogged, calls,
          binds, tmpfiles, fs, libcall, builder, form, sink, racers>>

\* ------------------------------------------------------------------ bounds
MaxInstances == 2
MaxCalls == 3
MaxEvents == 2

\* ----------------------------------------------------------- partition ids
partid_dummy == "dummy"
partid_efi == "EFI"
partid_live == "live"
partid_internal == "internal"
partid_data == "data"

None == "None"

\* ------------------------------------------------------------------ crypto
\* Strings (passwords, keys, digests) are sequences of atoms, so that hashes
\* chain by concatenation and keys of any origin can be compared.

\* cpass.harden_password_for_blob0: deterministic in password and salt
harden_password_for_blob0(password, salt) == <<"hardened">> \o password \o salt

\* A ciphertext names the key it was made under and its clear text; id stands
\* for its bytes.
Encrypt(id, key, plain) == [id |-> id, key |-> key, plain |-> plain]
Garbage(id) == [id |-> id, key |-> <<"no-key">>, plain |-> <<"garbage">>]

\* CryptoPassword.decrypt / CryptoKey.decrypt: the clear text under the exact
\* key; an exception under any other key.
Decrypt(key, data) ==
    IF data.key = key THEN [ok |-> TRUE, plain |-> data.plain]
    ELSE [ok |-> FALSE, plain |-> <<>>]

\* ------------------------------------------------------ reference device
Blob0Value == <<"blob0">>
Blob1Priv == <<"blob1.priv">>
IntPassword == <<"internal-password">>
DataPassword == <<"data-password">>
LegacySalt == <<"not really some salt">>

Passwords == {<<"pw1">>, <<"pw2">>, <<"bad">>}

F_blob0 == "resources/blob0.json"
F_blob1 == "resources/blob1.priv.enc"
F_chunks == "resources/chunks.enc"
F_intpass == "resources/internal-pass.enc"
F_metapub == "resources/meta-sign.pub"
F_grubcfg == "boot/grub/grub.cfg"
\* files of the dummy partition, in the order of the directory walk
DummyFiles == <<F_grubcfg, F_blob0, F_blob1, F_chunks, F_intpass, F_metapub>>

E_bootparams == "boot/grub/bootparams.cfg"
E_bootparams0 == "bootparams0.cfg"
E_bootparams1 == "bootparams1.cfg"
E_grubefi == "EFI/BOOT/grubx64.efi"
EfiFiles == <<E_grubefi, E_bootparams, E_bootparams0, E_bootparams1>>

\* the chunk list sealed in chunks.enc: expected hash of each declared chunk
RefChunks == <<[file |-> "filesystem.squashfs", hash |-> "squashfs.ref"],
               [file |-> "vmlinuz", hash |-> "vmlinuz.ref"]>>

\* _dummy_ignore's size limits
IntPassLimit == 500
Blob0Limit == 10000

File(size, body) == [exists |-> TRUE, size |-> size, body |-> body]
Plain(id) == [id |-> id, key |-> <<"clear">>, plain |-> <<id>>]
Absent == [exists |-> FALSE, size |-> 0, body |-> Garbage("absent")]

\* slots of blob0.json as written at format time and by later user management
Slot(uuid, cn, salt, key) ==
    [uuid |-> uuid, cn |-> cn, mode |-> "password", hasSalt |-> salt # <<>>,
     salt |-> salt, hasCn |-> TRUE,
     encblob |-> Encrypt("enc-blob", key, Blob0Value)]
SlotHardened == Slot("uuid-1", "Alice", <<"salt-1">>,
                     harden_password_for_blob0(<<"pw1">>, <<"salt-1">>))
SlotLegacySalt == Slot("uuid-2", "Bob", <<>>,
                       harden_password_for_blob0(<<"pw2">>, LegacySalt))
SlotLegacyPlain == Slot("uuid-3", "Carol", <<>>, <<"pw2">>)
Stores == { <<SlotHardened>>, <<SlotLegacySalt, SlotHardened>>, <<SlotLegacyPlain>> }

\* -------------------------------------------------- content fingerprinter
\* fphash.chain_integity_hash: the chained digest, injective in both arguments
\* (every digest below is one atom, so concatenation keeps them apart)
chain_integity_hash(hash, newhash) == hash \o newhash

\* hash[:5], the prefix written to the integrity log
Prefix5(hash) == <<"prefix5">> \o hash

\* _dummy_ignore(root, relative): "True" to skip the file, "False" to hash it
dummy_ignore(files, relative) ==
    IF relative = F_intpass
    THEN (IF files[relative].size < IntPassLimit THEN "True" ELSE "False")
    ELSE IF relative = F_blob0
    THEN (IF files[relative].size < Blob0Limit THEN "True" ELSE "False")
    ELSE "False"

\* _efi_ignore returning True where the code returns a generated password
efi_ignore_truthy(files, relative) ==
    IF relative = E_bootparams THEN "True" ELSE "False"

\* _efi_ignore(root, relative): "True" when bootparams.cfg equals one of its two
\* neighbours, a generated password ("Random") when a neighbour is missing or the
\* contents match neither
efi_ignore(files, relative) ==
    IF relative = E_bootparams
    THEN IF ~files[E_bootparams0].exists \/ ~files[E_bootparams1].exists
         THEN "Random"
         ELSE IF files[relative].body.id # files[E_bootparams0].body.id
                 /\ files[relative].body.id # files[E_bootparams1].body.id
              THEN "Random"
              ELSE "True"
    ELSE "False"

\* fphash.compute_directory_hash(root, ignore): walks the files in order, folds
\* the relative path and the content of every file that is not ignored; a
\* generated password returned by the predicate is folded in its place.
\* ignore is the predicate tabulated over the relative paths of the directory
RECURSIVE DirHashFrom(_, _, _, _, _)
DirHashFrom(files, order, ignore, rnd, i) ==
    IF i > Len(order) THEN <<>>
    ELSE LET rel == order[i]
             ign == IF files[rel].exists THEN ignore[rel] ELSE "Absent"
             part == CASE ign = "True" -> <<>>
                       [] ign = "Absent" -> <<>>
                       [] ign = "Random" -> <<rel, rnd>>
                       [] OTHER -> <<rel, files[rel].body.id>>
         IN  part \o DirHashFrom(files, order, ignore, rnd, i + 1)

compute_directory_hash(files, order, ignore, rnd) ==
    DirHashFrom(files, order, ignore, rnd, 1)

\* Device.compute_inter_partitions_hash: (interhash, log)
compute_inter_partitions_hash(d) == <<d.gap>>
inter_partitions_log(d) == << [step |-> "inter", prefix |-> Prefix5(<<d.gap>>)] >>

\* fphash.compute_partitions_table_hash(devfile, ftype)
compute_partitions_table_hash(d) == <<d.table>>

\* fpchunks.verify_files_chunks(lmp, chunks): every declared chunk must have its
\* expected hash, else it raises; (hash0, log0) otherwise
ChunksOk(live, chunks) ==
    \A i \in 1..Len(chunks) : live[chunks[i].file] = chunks[i].hash

RECURSIVE ChunksHashFrom(_, _)
ChunksHashFrom(chunks, i) ==
    IF i > Len(chunks) THEN <<>>
    ELSE <<chunks[i].hash>> \o ChunksHashFrom(chunks, i + 1)

verify_files_chunks(live, chunks) ==
    [ok |-> ChunksOk(live, chunks), hash0 |-> ChunksHashFrom(chunks, 1),
     log0 |-> [i \in 1..Len(chunks) |-> chunks[i].file]]

\* compute_integrity_fingerprint folding EFI before dummy
compute_integrity_fingerprint_efi_first(d, blob1_priv, live_hash, rnd) ==
    LET interhash == compute_inter_partitions_hash(d)
        h1 == chain_integity_hash(interhash, blob1_priv)
        h2 == chain_integity_hash(h1, compute_partitions_table_hash(d))
        h3 == chain_integity_hash(h2,
                 compute_directory_hash(d.efi, EfiFiles,
                     [r \in DOMAIN d.efi |-> efi_ignore(d.efi, r)], rnd))
        h4 == chain_integity_hash(h3,
                 compute_directory_hash(d.dummy, DummyFiles,
                     [r \in DOMAIN d.dummy |-> dummy_ignore(d.dummy, r)], rnd))
        h5 == chain_integity_hash(h4, live_hash)
    IN  [hash |-> h5,
         log |-> inter_partitions_log(d) \o
                 << [step |-> "blob1", prefix |-> Prefix5(h1)],
                    [step |-> "mbr", prefix |-> Prefix5(h2)],
                    [step |-> "efi-data", prefix |-> Prefix5(h3)],
                    [step |-> "dummy", prefix |-> Prefix5(h4)],
                    [step |-> "live", prefix |-> Prefix5(h5)] >>]

\* compute_integrity_fingerprint(dev, blob1_priv, live_hash): (hash, log); rnd
\* is what cgen.generate_password() returns should _efi_ignore call it
compute_integrity_fingerprint(d, blob1_priv, live_hash, rnd) ==
    LET interhash == compute_inter_partitions_hash(d)
        h1 == chain_integity_hash(interhash, blob1_priv)
        h2 == chain_integity_hash(h1, compute_partitions_table_hash(d))
        h3 == chain_integity_hash(h2,
                 compute_directory_hash(d.dummy, DummyFiles,
                     [r \in DOMAIN d.dummy |-> dummy_ignore(d.dummy, r)], rnd))
        h4 == chain_integity_hash(h3,
                 compute_directory_hash(d.efi, EfiFiles,
                     [r \in DOMAIN d.efi |-> efi_ignore(d.efi, r)], rnd))
        h5 == chain_integity_hash(h4, live_hash)
    IN  [hash |-> h5,
         log |-> inter_partitions_log(d) \o
                 << [step |-> "blob1", prefix |-> Prefix5(h1)],
                    [step |-> "mbr", prefix |-> Prefix5(h2)],
                    [step |-> "dummy", prefix |-> Prefix5(h3)],
                    [step |-> "efi-data", prefix |-> Prefix5(h4)],
                    [step |-> "live", prefix |-> Prefix5(h5)] >>]

\* ------------------------------------------- the device as formatted
RefLive == [f \in {"filesystem.squashfs", "vmlinuz"} |->
               IF f = "vmlinuz" THEN "vmlinuz.ref" ELSE "squashfs.ref"]

RefBase ==
    [gap |-> "gap.ref",
     table |-> "table.ref",
     metasig |-> "meta-sign.ref",      \* key that signed the device metadata
     dummy |-> [f \in {F_grubcfg, F_blob0, F_blob1, F_chunks, F_intpass, F_metapub} |->
                CASE f = F_grubcfg -> File(Blob0Limit, Plain("grub.cfg.ref"))
                  [] f = F_blob0 -> File(Blob0Limit - 1, Plain("blob0.json"))
                  [] f = F_blob1 -> File(Blob0Limit,
                                         Encrypt("blob1.priv.enc.ref", Blob0Value, Blob1Priv))
                  [] f = F_chunks -> File(Blob0Limit,
                                          Encrypt("chunks.enc.ref", Blob1Priv, RefChunks))
                  [] f = F_intpass -> File(IntPassLimit - 1, Garbage("internal-pass.enc"))
                  [] f = F_metapub -> File(Blob0Limit, Plain("meta-sign.ref"))],
     efi |-> [f \in {E_grubefi, E_bootparams, E_bootparams0, E_bootparams1} |->
                CASE f = E_grubefi -> File(Blob0Limit, Plain("grubx64.efi.ref"))
                  [] f = E_bootparams -> File(Blob0Limit, Plain("bootparams.0"))
                  [] f = E_bootparams0 -> File(Blob0Limit, Plain("bootparams.0"))
                  [] f = E_bootparams1 -> File(Blob0Limit, Plain("bootparams.1"))],
     live |-> RefLive,
     datapass |-> Garbage("data-pass.enc"),
     build_type |-> "WKS"]

\* the integrity fingerprint of the device at format time
RefFingerprint ==
    compute_integrity_fingerprint(RefBase, Blob1Priv,
        verify_files_chunks(RefLive, RefChunks).hash0, "unused").hash

RefDevice ==
    [RefBase EXCEPT
        !.dummy[F_intpass] =
            File(IntPassLimit - 1, Encrypt("internal-pass.enc", RefFingerprint, IntPassword)),
        !.datapass = Encrypt("data-pass.enc", RefFingerprint, DataPassword)]

\* One change made to the formatted device before the process starts.
IntegrityTampers == {"gap", "table", "dummy_file", "blob1", "chunks", "metapub",
                     "efi_file", "live_chunk"}
Tampers == IntegrityTampers \cup {"none", "intpass_big", "intpass_missing",
                                  "bootparams_third", "bootparams_other",
                                  "bootparams_orphan",
                                  "blob0_missing", "metasig", "simple_live"}

Tampered(d, t) ==
    CASE t = "gap" -> [d EXCEPT !.gap = "gap.x"]
      [] t = "table" -> [d EXCEPT !.table = "table.x"]
      [] t = "dummy_file" -> [d EXCEPT !.dummy[F_grubcfg].body = Plain("grub.cfg.x")]
      [] t = "blob1" -> [d EXCEPT !.dummy[F_blob1].body = Garbage("blob1.priv.enc.x")]
      [] t = "chunks" -> [d EXCEPT !.dummy[F_chunks].body = Garbage("chunks.enc.x")]
      [] t = "metapub" -> [d EXCEPT !.dummy[F_metapub].body = Plain("meta-sign.x")]
      [] t = "efi_file" -> [d EXCEPT !.efi[E_grubefi].body = Plain("grubx64.efi.x")]
      [] t = "live_chunk" -> [d EXCEPT !.live["vmlinuz"] = "vmlinuz.x"]
      [] t = "intpass_big" -> [d EXCEPT !.dummy[F_intpass].size = IntPassLimit]
      [] t = "intpass_missing" -> [d EXCEPT !.dummy[F_intpass] = Absent]
      [] t = "bootparams_third" -> [d EXCEPT !.efi[E_bootparams].body = Plain("bootparams.x")]
      [] t = "bootparams_other" -> [d EXCEPT !.efi[E_bootparams].body = Plain("bootparams.1")]
      [] t = "bootparams_orphan" -> [d EXCEPT !.efi[E_bootparams1] = Absent]
      [] t = "blob0_missing" -> [d EXCEPT !.dummy[F_blob0] = Absent]
      [] t = "metasig" -> [d EXCEPT !.metasig = "meta-sign.x"]
      [] t = "simple_live" -> [d EXCEPT !.build_type = "SIMPLE"]
      [] OTHER -> d

\* ------------------------------------------------------ device abstraction
\* Device.mount(part): the partition is mounted (no effect when it already is)
DevMount(m, part) == m \cup {part}
\* Device.umount(part)
DevUmount(m, part) == m \ {part}
\* Device.verify(verifiers): the signature of the device metadata must verify
\* under the public key file named by the verifier
DevVerify(d) ==
    /\ d.dummy[F_metapub].exists
    /\ d.dummy[F_metapub].body.id = d.metasig

\* --------------------------------------------------------------- exceptions
Exc(kind, msg) == [kind |-> kind, msg |-> msg]
InvalidCredentialException == Exc("InvalidCredentialException", "Invalid password")
DeviceIntegrityException == Exc("DeviceIntegrityException", "Device may be compromised")
AlreadyUnlocked == Exc("Exception", "Device already unlocked")

Raised(exc) == [status |-> "raised", kind |-> exc.kind, msg |-> exc.msg, value |-> <<>>]
Returned(value) == [status |-> "returned", kind |-> "", msg |-> "", value |-> value]
NoResult == [status |-> "none", kind |-> "", msg |-> "", value |-> <<>>]

\* the error the except clause of unlock() writes to syslog: its message, the
\* kind of failure underneath, and whether it carries the integrity log
Inner(msg, cause, log) == [msg |-> msg, cause |-> cause, log |-> log]

NoLoc == [user_password |-> <<>>, verified |-> FALSE, blob0 |-> <<>>, blob1 |-> <<>>,
          chunks |-> <<>>, hash0 |-> <<>>, log0 |-> <<>>, ifp |-> <<>>, log |-> <<>>,
          int_password |-> <<>>, data_password |-> <<>>]

EnvIds == {1, 2}
NoEnv == [exists |-> FALSE, unlocked |-> FALSE]

\* /opt/share/inseca-data-map.json: the destinations, in the order of the file
DataMap == <<"/home/insecauser/Documents", "/home/insecauser/.config",
             "/etc/NetworkManager/system-connections">>

\* the root file system as the live Linux is built
RootFs == [map_file |-> TRUE, privdata_enc |-> TRUE, live_config_enc |-> TRUE,
           privkey |-> TRUE, user_config |-> {}, user_uuid |-> None]

\* the components that have PRIVDATA in privdata.tar.enc, as os.listdir gives them
Components == <<"base-os", "vpn-client">>

\* no library call made yet
NoOp == [name |-> "none"]

\* a directory of the build tree with its listing, a file with its content
NoDir == [exists |-> FALSE, listing |-> <<>>]
Dir(listing) == [exists |-> TRUE, listing |-> listing]
NoFile == [exists |-> FALSE, body |-> <<>>]
FileOf(body) == [exists |-> TRUE, body |-> body]
\* Builder._privdata_pubkey is None
NoPubkey == <<>>
NoBuilder ==
    [privdata_pubkey |-> NoPubkey, dry_mode |-> FALSE,
     privdata |-> NoDir, live_config |-> NoDir,
     privdata_tar |-> NoFile, privdata_enc |-> NoFile,
     live_config_tar |-> NoFile, live_config_enc |-> NoFile,
     build_data |-> <<>>, build_interrupted |-> FALSE,
     child |-> "none", container |-> "none",
     built_iso |-> FALSE, customized |-> FALSE, image_file |-> FALSE]

\* Events.__init__: no connection, no device id, an empty backlog; with it the
\* state of /internal, the rows of the events table, the clock, and the
\* numbers of the events put in the backlog, inserted and delivered so far
NoSink ==
    [device_id |-> "", conn |-> FALSE, backlog |-> <<>>, internal |-> "unmounted",
     db |-> <<>>, now |-> 1, n |-> 0,
     backlogged |-> <<>>, inserted |-> <<>>, delivered |-> {}]

\* a process that has no users management call under way, and two of them
NoRacer ==
    [op |-> "none", phase |-> "idle", name |-> "", password |-> <<>>, blob0 |-> <<>>,
     salt |-> <<>>, fresh |-> "None", users |-> <<>>]
Procs == {1, 2}
NoRacers == [p \in Procs |-> NoRacer]

\* a dict without keys
EmptyDict == [p \in {} |-> ""]
\* self._fconf is None
NoFconf == [id |-> "", parameters_config |-> <<>>, overrides |-> EmptyDict,
            password_rescue |-> "", devicemeta_privkey |-> ""]
\* Component before a format configuration is chosen: self._fconf (current),
\* self._params (chosen, with its fconf, links and the values of its entries)
\* and self._final_params are None, the grid shows no entry, no device is
\* selected, the Format button is not sensitive
NoForm ==
    [chosen |-> FALSE, fconf |-> NoFconf, current |-> NoFconf,
     links |-> {}, values |-> EmptyDict, shown |-> FALSE, selected |-> FALSE,
     final |-> FALSE, final_params |-> EmptyDict, format_button |-> FALSE]

\* ------------------------------------------------------------------ Environ
\* Environ.update_unlocked_status: findmnt /internal for WKS, SERVER and ADMIN
\* live systems, always unlocked for a basic live Linux
update_unlocked_status(build_type, m) ==
    IF build_type \in {"WKS", "SERVER", "ADMIN"}
    THEN partid_internal \in m
    ELSE TRUE

\* Environ.__init__
NewEnviron(e) ==
    /\ pc = "idle"
    /\ ~envs[e].exists
    /\ envs' = [envs EXCEPT ![e] = [exists |-> TRUE,
                                    unlocked |-> update_unlocked_status(dev.build_type, mounted)]]
    /\ UNCHANGED <<dev, sink, racers, builder, form, binds, tmpfiles, fs, libcall, blob0json, mounted, secrets, dataDir, instances, singleton,
                   returned, pc, self, loc, trace, result, events, syslogged, calls>>

\* ----------------------------------------------------------- BootProcessWKS
NewInstance(e) == [live_env |-> e, user_uuid |-> None, cn |-> None]

\* BootProcessWKS.__init__(live_env): every construction makes a new object
Construct(e) ==
    /\ pc = "idle"
    /\ envs[e].exists
    /\ Len(instances) < MaxInstances
    /\ instances' = Append(instances, NewInstance(e))
    /\ returned' = Len(instances) + 1
    /\ UNCHANGED <<dev, sink, racers, builder, form, binds, tmpfiles, fs, libcall, blob0json, mounted, secrets, dataDir, envs, singleton,
                   pc, self, loc, trace, result, events, syslogged, calls>>

\* BootProcessWKS.get_instance(live_env=None); arg 0 stands for None
get_instance(arg) ==
    /\ pc = "idle"
    /\ arg # 0 => envs[arg].exists
    /\ IF singleton = 0 /\ arg # 0
       THEN /\ Len(instances) < MaxInstances
            /\ instances' = Append(instances, NewInstance(arg))
            /\ singleton' = Len(instances) + 1
       ELSE UNCHANGED <<instances, singleton>>
    /\ returned' = singleton'
    /\ UNCHANGED <<dev, sink, racers, builder, form, binds, tmpfiles, fs, libcall, blob0json, mounted, secrets, dataDir, envs,
                   pc, self, loc, trace, result, events, syslogged, calls>>

\* ------------------------------------------------------------------ unlock
\* variables no step of unlock() touches
FrameButFs == UNCHANGED <<dev, sink, racers, builder, form, binds, tmpfiles, libcall, blob0json, envs, singleton,
                          returned, calls>>
Frame == FrameButFs /\ UNCHANGED fs

\* raise out of unlock(): the caller sees the exception
Raise(exc) ==
    /\ result' = Raised(exc)
    /\ pc' = "idle"

\* the except clause passing the message of the error on to the caller
IntegrityFailureDetailed(inner, m, t) ==
    /\ syslogged' = syslogged \cup {inner}
    /\ mounted' = DevUmount(m, partid_dummy)
    /\ trace' = Append(t, <<"umount", partid_dummy>>)
    /\ Raise(Exc("DeviceIntegrityException", inner.msg))

\* except Exception as e: syslog(...); raise DeviceIntegrityException(...)
\* finally: self._dev.umount(partid_dummy)          (m: the mounts so far, t: the trace)
IntegrityFailure(inner, m, t) ==
    /\ syslogged' = syslogged \cup {inner}
    /\ mounted' = DevUmount(m, partid_dummy)
    /\ trace' = Append(t, <<"umount", partid_dummy>>)
    /\ Raise(DeviceIntegrityException)

\* unlock(user_password), up to the mount of dummy
UnlockCall(i, user_password) ==
    /\ pc = "idle"
    /\ calls < MaxCalls
    /\ calls' = calls + 1
    /\ self' = i
    /\ loc' = [NoLoc EXCEPT !.user_password = user_password]
    /\ IF envs[instances[i].live_env].unlocked
       THEN /\ Raise(AlreadyUnlocked)
            /\ trace' = <<>>
            /\ UNCHANGED mounted
       ELSE \E ok \in BOOLEAN :
              IF ok
              THEN /\ mounted' = DevMount(mounted, partid_dummy)
                   /\ trace' = << <<"mount", partid_dummy>> >>
                   /\ pc' = "verify"
                   /\ result' = NoResult
              ELSE /\ Raise(Exc("Exception", "mount-failure"))
                   /\ trace' = <<>>
                   /\ UNCHANGED mounted
    /\ events' = {}
    /\ syslogged' = {}
    /\ UNCHANGED <<dev, sink, racers, builder, form, binds, tmpfiles, fs, libcall, blob0json, envs, singleton, returned, secrets, dataDir,
                   instances>>

\* unlock going on whatever verify answers
UnlockVerifyUnchecked ==
    /\ pc = "verify"
    /\ pc' = "unlock_blob0"
    /\ loc' = [loc EXCEPT !.verified = DevVerify(dev)]
    /\ trace' = Append(trace, <<"verify">>)
    /\ UNCHANGED <<mounted, result>>
    /\ Frame
    /\ UNCHANGED <<secrets, dataDir, instances, self, events, syslogged>>

\* authenticate device: self._dev.verify(verifiers)
UnlockVerify ==
    /\ pc = "verify"
    /\ IF DevVerify(dev)
       THEN /\ pc' = "unlock_blob0"
            /\ loc' = [loc EXCEPT !.verified = TRUE]
            /\ trace' = Append(trace, <<"verify">>)
            /\ UNCHANGED <<mounted, result>>
       ELSE /\ mounted' = DevUmount(mounted, partid_dummy)
            /\ trace' = trace \o << <<"verify">>, <<"umount", partid_dummy>> >>
            /\ Raise(Exc("Exception", "verify-failure"))
            /\ UNCHANGED loc
    /\ Frame
    /\ UNCHANGED <<secrets, dataDir, instances, self, events, syslogged>>

\* one turn of the slot loop of _unlock_blob0: the hardened key first (with the
\* slot's salt or the legacy one), then the plain password
SlotBlob0(entry, user_password) ==
    LET salt == IF entry.hasSalt THEN entry.salt ELSE LegacySalt
        hard == Decrypt(harden_password_for_blob0(user_password, salt), entry.encblob)
    IN  IF hard.ok THEN hard ELSE Decrypt(user_password, entry.encblob)

\* the slot is accepted: it decrypts and its "cn" can be read
SlotOk(entry, user_password) ==
    SlotBlob0(entry, user_password).ok /\ entry.hasCn

\* index of the first slot, at or after i, that the loop returns from (0: none)
RECURSIVE FirstSlot(_, _, _)
FirstSlot(blobs, user_password, i) ==
    IF i > Len(blobs) THEN 0
    ELSE IF SlotOk(blobs[i], user_password) THEN i
    ELSE FirstSlot(blobs, user_password, i + 1)

\* self._user_uuid after the loop: every slot that decrypted, up to the one
\* returned from, has been assigned in turn
RECURSIVE LastUuid(_, _, _, _)
LastUuid(blobs, user_password, upto, prev) ==
    IF upto = 0 THEN prev
    ELSE IF SlotBlob0(blobs[upto], user_password).ok THEN blobs[upto].uuid
    ELSE LastUuid(blobs, user_password, upto - 1, prev)

\* _unlock_blob0 raising InvalidCredentialException with dummy left mounted
UnlockBlob0NoUmount ==
    /\ pc = "unlock_blob0"
    /\ dev.dummy[F_blob0].exists
    /\ LET k == FirstSlot(blob0json, loc.user_password, 1)
       IN  IF k # 0
           THEN /\ loc' = [loc EXCEPT !.blob0 = SlotBlob0(blob0json[k], loc.user_password).plain]
                /\ pc' = "blob1"
                /\ UNCHANGED result
           ELSE /\ Raise(InvalidCredentialException)
                /\ UNCHANGED loc
    /\ trace' = Append(trace, <<"mount", partid_dummy>>)
    /\ Frame
    /\ UNCHANGED <<mounted, instances, secrets, dataDir, self, events, syslogged>>

\* self._cn after the loop: the cn of the last slot, up to upto, that decrypted
\* and has one
RECURSIVE LastCn(_, _, _, _)
LastCn(blobs, user_password, upto, prev) ==
    IF upto = 0 THEN prev
    ELSE IF SlotOk(blobs[upto], user_password) THEN blobs[upto].cn
    ELSE LastCn(blobs, user_password, upto - 1, prev)

\* blob0=self._unlock_blob0(user_password).  What follows the decryption in the
\* inner try block can fail too, and the slot is then passed over like one that
\* does not decrypt: the write of /run/INSECA/user_uuid (io "write-failed") and
\* the change of the logged user's comment (io "comment-failed").
UnlockBlob0 ==
    /\ pc = "unlock_blob0"
    /\ IF ~dev.dummy[F_blob0].exists
       THEN \* load_file_contents raises: nothing is unmounted
            /\ Raise(Exc("Exception", "fs-op-failure"))
            /\ trace' = Append(trace, <<"mount", partid_dummy>>)
            /\ UNCHANGED <<mounted, loc, instances, fs>>
       ELSE \E io \in {"ok", "write-failed", "comment-failed"} :
            LET k == IF io = "ok" THEN FirstSlot(blob0json, loc.user_password, 1) ELSE 0
                n == IF k = 0 THEN Len(blob0json) ELSE k
                uuid == LastUuid(blob0json, loc.user_password, n, instances[self].user_uuid)
                written == IF io = "write-failed" THEN fs.user_uuid
                           ELSE LastUuid(blob0json, loc.user_password, n, fs.user_uuid)
                cn == IF io = "write-failed" THEN instances[self].cn
                      ELSE LastCn(blob0json, loc.user_password, n, instances[self].cn)
            IN  /\ fs' = [fs EXCEPT !.user_uuid = written]
                /\ instances' = [instances EXCEPT ![self].user_uuid = uuid,
                                                  ![self].cn = cn]
                /\ IF k # 0
                   THEN /\ loc' = [loc EXCEPT !.blob0 = SlotBlob0(blob0json[k], loc.user_password).plain]
                        /\ trace' = Append(trace, <<"mount", partid_dummy>>)
                        /\ pc' = "blob1"
                        /\ UNCHANGED <<mounted, result>>
                   ELSE /\ mounted' = DevUmount(mounted, partid_dummy)
                        /\ trace' = trace \o << <<"mount", partid_dummy>>,
                                                <<"umount", partid_dummy>> >>
                        /\ Raise(InvalidCredentialException)
                        /\ UNCHANGED loc
    /\ FrameButFs
    /\ UNCHANGED <<secrets, dataDir, self, events, syslogged>>

\* steps of (eobj, int_password)=self._unblock_with_blob0(dmp, blob0), inside
\* the try block of unlock()
Zone == UNCHANGED <<secrets, dataDir, instances, self, events>>

\* decrypt blob1
UnblockBlob1 ==
    /\ pc = "blob1"
    /\ LET f == dev.dummy[F_blob1]
           d == Decrypt(loc.blob0, f.body)
       IN  IF f.exists /\ d.ok
           THEN /\ loc' = [loc EXCEPT !.blob1 = d.plain]
                /\ pc' = "chunks"
                /\ UNCHANGED <<mounted, trace, result, syslogged>>
           ELSE /\ IntegrityFailure(
                       Inner("Could not load 'blob1.priv.enc' or decrypt blob1 from blob0",
                             IF f.exists THEN "decrypt" ELSE "missing-file", FALSE),
                       mounted, trace)
                /\ UNCHANGED loc
    /\ Frame /\ Zone

\* load "live" chunks
UnblockChunks ==
    /\ pc = "chunks"
    /\ LET f == dev.dummy[F_chunks]
           d == Decrypt(loc.blob1, f.body)
       IN  IF f.exists /\ d.ok
           THEN /\ loc' = [loc EXCEPT !.chunks = d.plain]
                /\ pc' = "live"
                /\ UNCHANGED <<mounted, trace, result, syslogged>>
           ELSE /\ IntegrityFailure(
                       Inner("Could not load 'chunks.enc' or decrypt chuks from blob1",
                             IF f.exists THEN "decrypt" ELSE "missing-file", FALSE),
                       mounted, trace)
                /\ UNCHANGED loc
    /\ Frame /\ Zone

\* lmp=self._dev.mount(partid_live); verify_files_chunks(lmp, chunks)
UnblockLive ==
    /\ pc = "live"
    /\ \E ok \in BOOLEAN :
         IF ~ok
         THEN /\ IntegrityFailure(
                     Inner("Could not verify files in the live partition", "mount-failure", FALSE),
                     mounted, trace)
              /\ UNCHANGED loc
         ELSE LET v == verify_files_chunks(dev.live, loc.chunks)
                  m == DevMount(mounted, partid_live)
                  t == Append(trace, <<"mount", partid_live>>)
              IN  IF v.ok
                  THEN /\ loc' = [loc EXCEPT !.hash0 = v.hash0, !.log0 = v.log0]
                       /\ mounted' = m
                       /\ trace' = t
                       /\ pc' = "fingerprint"
                       /\ UNCHANGED <<result, syslogged>>
                  ELSE /\ IntegrityFailure(
                              Inner("Could not verify files in the live partition",
                                    "chunks-mismatch", FALSE), m, t)
                       /\ UNCHANGED loc
    /\ Frame /\ Zone

\* generated passwords _efi_ignore may return
Nonces == {"random.1", "random.2"}

\* (ifp, log)=compute_integrity_fingerprint(self._dev, blob1, hash0): mounts
\* dummy and EFI
UnblockFingerprint ==
    /\ pc = "fingerprint"
    /\ \E ok \in BOOLEAN, rnd \in Nonces :
         IF ~ok
         THEN /\ IntegrityFailure(
                     Inner("Could not compute the integrity fingerprint", "mount-failure", FALSE),
                     mounted, Append(trace, <<"mount", partid_dummy>>))
              /\ UNCHANGED loc
         ELSE LET r == compute_integrity_fingerprint(dev, loc.blob1, loc.hash0, rnd)
              IN  /\ loc' = [loc EXCEPT !.ifp = r.hash,
                                         !.log = r.log \o << [step |-> "live",
                                                              prefix |-> loc.log0] >>]
                  /\ mounted' = DevMount(DevMount(mounted, partid_dummy), partid_efi)
                  /\ trace' = trace \o << <<"mount", partid_dummy>>, <<"mount", partid_efi>> >>
                  /\ pc' = "load_intpass"
                  /\ UNCHANGED <<result, syslogged>>
    /\ Frame /\ Zone

\* load internal partition's password
UnblockLoadIntPass ==
    /\ pc = "load_intpass"
    /\ IF dev.dummy[F_intpass].exists
       THEN /\ pc' = "decrypt_intpass"
            /\ UNCHANGED <<mounted, trace, result, syslogged>>
       ELSE IntegrityFailure(
                Inner("Could not load the 'internal-pass.enc' file", "missing-file", TRUE),
                mounted, trace)
    /\ UNCHANGED loc
    /\ Frame /\ Zone

\* decrypt internal partition's password
UnblockDecryptIntPass ==
    /\ pc = "decrypt_intpass"
    /\ LET d == Decrypt(loc.ifp, dev.dummy[F_intpass].body)
       IN  IF d.ok
           THEN /\ loc' = [loc EXCEPT !.int_password = d.plain]
                /\ pc' = "secret_internal"
                /\ UNCHANGED <<mounted, trace, result, syslogged>>
           ELSE /\ IntegrityFailure(
                       Inner("Could not decrypt the 'internal-pass.enc' file from the integrity hash",
                             "decrypt", TRUE),
                       mounted, trace)
                /\ UNCHANGED loc
    /\ Frame /\ Zone

\* self._dev.set_partition_secret(partid_internal, "password", int_password)
OpenInternalSecret ==
    /\ pc = "secret_internal"
    /\ \E ok \in BOOLEAN :
         IF ok
         THEN /\ secrets' = secrets \cup {partid_internal}
              /\ trace' = Append(trace, <<"secret", partid_internal>>)
              /\ pc' = "mount_internal"
              /\ UNCHANGED <<mounted, result, syslogged>>
         ELSE /\ IntegrityFailure(Inner("set_partition_secret", "device-busy", FALSE),
                                  mounted, trace)
              /\ UNCHANGED secrets
    /\ Frame
    /\ UNCHANGED <<loc, dataDir, instances, self, events>>

\* the mount of internal outside the try block: its failure raised as it is
OpenInternalMountVerbatim ==
    /\ pc = "mount_internal"
    /\ \E ok \in BOOLEAN :
         IF ok
         THEN /\ mounted' = DevMount(mounted, partid_internal)
              /\ trace' = Append(trace, <<"mount", partid_internal>>)
              /\ pc' = "data_pass"
              /\ UNCHANGED result
         ELSE /\ Raise(Exc("Exception", "mount-failure"))
              /\ UNCHANGED <<mounted, trace>>
    /\ Frame
    /\ UNCHANGED <<loc, secrets, dataDir, instances, self, events, syslogged>>

\* self._dev.mount(partid_internal, "/internal", ..., auto_umount=False)
OpenInternalMount ==
    /\ pc = "mount_internal"
    /\ \E ok \in BOOLEAN :
         IF ok
         THEN /\ mounted' = DevMount(mounted, partid_internal)
              /\ trace' = Append(trace, <<"mount", partid_internal>>)
              /\ pc' = "data_pass"
              /\ UNCHANGED <<result, syslogged>>
         ELSE IntegrityFailure(Inner("mount", "mount-failure", FALSE), mounted, trace)
    /\ Frame
    /\ UNCHANGED <<loc, secrets, dataDir, instances, self, events>>

\* data=load_file_contents("/internal/credentials/data-pass.enc")
\* data_password=eobj.decrypt(data).decode()    (eobj: the CryptoPassword of ifp)
OpenDataPass ==
    /\ pc = "data_pass"
    /\ \E present \in BOOLEAN :
         LET d == Decrypt(loc.ifp, dev.datapass)
         IN  IF present /\ d.ok
             THEN /\ loc' = [loc EXCEPT !.data_password = d.plain]
                  /\ pc' = "secret_data"
                  /\ UNCHANGED <<mounted, trace, result, syslogged>>
             ELSE /\ IntegrityFailure(
                         Inner("data-pass.enc", IF present THEN "decrypt" ELSE "fs-op-failure",
                               FALSE),
                         mounted, trace)
                  /\ UNCHANGED loc
    /\ Frame
    /\ UNCHANGED <<secrets, dataDir, instances, self, events>>

\* self._dev.set_partition_secret("data", "password", data_password)
OpenDataSecret ==
    /\ pc = "secret_data"
    /\ \E ok \in BOOLEAN :
         IF ok
         THEN /\ secrets' = secrets \cup {partid_data}
              /\ trace' = Append(trace, <<"secret", partid_data>>)
              /\ pc' = "makedirs_data"
              /\ UNCHANGED <<mounted, result, syslogged>>
         ELSE /\ IntegrityFailure(Inner("set_partition_secret", "device-busy", FALSE),
                                  mounted, trace)
              /\ UNCHANGED secrets
    /\ Frame
    /\ UNCHANGED <<loc, dataDir, instances, self, events>>

\* os.makedirs("/data"): raises when the directory exists
OpenDataMakedirs ==
    /\ pc = "makedirs_data"
    /\ IF ~dataDir
       THEN /\ dataDir' = TRUE
            /\ pc' = "mount_data"
            /\ UNCHANGED <<mounted, trace, result, syslogged>>
       ELSE /\ IntegrityFailure(Inner("makedirs", "fs-op-failure", FALSE), mounted, trace)
            /\ UNCHANGED dataDir
    /\ Frame
    /\ UNCHANGED <<loc, secrets, instances, self, events>>

\* unlock going on to the post-unlock steps without mounting data
OpenDataMountSkipped ==
    /\ pc = "mount_data"
    /\ mounted' = DevUmount(mounted, partid_dummy)
    /\ trace' = Append(trace, <<"umount", partid_dummy>>)
    /\ pc' = "update_status"
    /\ Frame
    /\ UNCHANGED <<result, syslogged, loc, secrets, dataDir, instances, self, events>>

\* self._dev.mount(partid_data, "/data", ...); finally: umount dummy
OpenDataMount ==
    /\ pc = "mount_data"
    /\ \E ok \in BOOLEAN :
         IF ok
         THEN /\ mounted' = DevUmount(DevMount(mounted, partid_data), partid_dummy)
              /\ trace' = trace \o << <<"mount", partid_data>>, <<"umount", partid_dummy>> >>
              /\ pc' = "update_status"
              /\ UNCHANGED <<result, syslogged>>
         ELSE IntegrityFailure(Inner("mount", "mount-failure", FALSE), mounted, trace)
    /\ Frame
    /\ UNCHANGED <<loc, secrets, dataDir, instances, self, events>>

\* unlock going on to the post-unlock steps without refreshing the status
UnlockUpdateStatusSkipped ==
    /\ pc = "update_status"
    /\ pc' = "chpasswd"
    /\ UNCHANGED <<dev, sink, racers, builder, form, binds, tmpfiles, fs, libcall, blob0json, mounted, secrets, dataDir, envs, instances, singleton,
                   returned, self, loc, trace, result, events, syslogged, calls>>

\* self._live_env.update_unlocked_status()
UnlockUpdateStatus ==
    /\ pc = "update_status"
    /\ envs' = [envs EXCEPT ![instances[self].live_env].unlocked =
                    update_unlocked_status(dev.build_type, mounted)]
    /\ pc' = "chpasswd"
    /\ UNCHANGED <<dev, sink, racers, builder, form, binds, tmpfiles, fs, libcall, blob0json, mounted, secrets, dataDir, instances, singleton,
                   returned, self, loc, trace, result, events, syslogged, calls>>

\* ------------------------------------------------------- post-unlock steps
\* eobj.decrypt(edata, return_tmpobj=True): the clear text is in a temporary
\* file that lives as long as the object returned, here the local resfile
TmpObj(archive, n) == [name |-> <<"tmpobj", archive, n>>, holds |-> archive]

\* return or raise out of the function: resfile goes out of scope
ReleaseLocals(files, resfile) == files \ resfile

\* tmptar=tempfile.NamedTemporaryFile(); tmptar.close(): the file is deleted at
\* close() and the name is all that is left of it
NamedTemporaryFileClosed(files, name) == {f \in files : f.name # name}

\* tarfile.open(tmptar.name, mode='w'): a file of that name is created
TarfileOpenW(files, name, component) ==
    files \cup {[name |-> name, holds |-> component]}

\* one turn of the loop over the components, as far as temporary files go
CopyComponent(files, component, n) ==
    TarfileOpenW(NamedTemporaryFileClosed(files, <<"tmptar", component, n>>),
                 <<"tmptar", component, n>>, component)

\* the loop over the components, from the i-th on
RECURSIVE CopyComponentsFrom(_, _, _, _)
CopyComponentsFrom(files, components, i, n) ==
    IF i > Len(components) THEN files
    ELSE CopyComponentsFrom(CopyComponent(files, components[i], n), components, i + 1, n)

Post == UNCHANGED <<dev, sink, racers, builder, form, fs, libcall, blob0json, mounted, secrets, dataDir, envs, instances,
                    singleton, returned, self, loc, calls>>

\* add_exception_event(module, exception) of the event sink
add_exception_event(ev, module, error) == ev \cup {<<module, error>>}

\* the except clause re-raising without a call of the event sink
PostStartFailureUnrecorded(ev, msg) ==
    /\ events' = ev
    /\ syslogged' = syslogged \cup {Inner(msg, "post-start", FALSE)}
    /\ Raise(Exc("Exception", msg))

\* except Exception as e: add_exception_event("post-start", str(e)); syslog; raise e
PostStartFailure(ev, msg) ==
    /\ events' = add_exception_event(ev, "post-start", msg)
    /\ syslogged' = syslogged \cup {Inner(msg, "post-start", FALSE)}
    /\ Raise(Exc("Exception", msg))

\* util.exec_sync(["chpasswd"], ...): outside the try block
UnlockChpasswd ==
    /\ pc = "chpasswd"
    /\ \E status \in {0, 1} :
         IF status # 0
         THEN Raise(Exc("Exception", "Could not change logged user's password"))
         ELSE /\ pc' = "gdm"
              /\ UNCHANGED result
    /\ trace' = Append(trace, <<"chpasswd">>)
    /\ Post
    /\ UNCHANGED tmpfiles
    /\ UNCHANGED binds
    /\ UNCHANGED <<events, syslogged>>

\* deactivate_gdm_autologin(): outside the try block; a failed reload is only
\* logged, a failed write of daemon.conf raises
UnlockGdm ==
    /\ pc = "gdm"
    /\ \E outcome \in {"absent", "ok", "reload-failed", "write-failed"} :
         /\ trace' = Append(trace, <<"gdm">>)
         /\ IF outcome = "write-failed"
            THEN /\ Raise(Exc("Exception", "fs-op-failure"))
                 /\ UNCHANGED syslogged
            ELSE /\ pc' = "privdata"
                 /\ syslogged' = IF outcome = "reload-failed"
                                 THEN syslogged \cup
                                      {Inner("Could not deactivate GDM autologin", "gdm", FALSE)}
                                 ELSE syslogged
                 /\ UNCHANGED result
    /\ Post
    /\ UNCHANGED tmpfiles
    /\ UNCHANGED binds
    /\ UNCHANGED events

\* self._live_env.extract_privdata(): a failed tar raises; the failure to copy
\* one component's PRIVDATA is logged and the loop goes on
UnlockExtractPrivdata ==
    /\ pc = "privdata"
    /\ \E outcome \in {"ok", "tar-failed", "component-failed"} :
         /\ trace' = Append(trace, <<"privdata">>)
         /\ IF outcome = "tar-failed"
            THEN /\ PostStartFailure(events, "Error extracting privdata.tar.enc")
                 /\ tmpfiles' = ReleaseLocals(tmpfiles \cup {TmpObj("extract_privdata", calls)},
                                              {TmpObj("extract_privdata", calls)})
            ELSE /\ pc' = "map"
                 /\ tmpfiles' = ReleaseLocals(
                                    CopyComponentsFrom(
                                        tmpfiles \cup {TmpObj("extract_privdata", calls)},
                                        Components, 1, calls),
                                    {TmpObj("extract_privdata", calls)})
                 /\ syslogged' = IF outcome = "component-failed"
                                 THEN syslogged \cup
                                      {Inner("Failed to extact PRIVDATA for component",
                                             "privdata", FALSE)}
                                 ELSE syslogged
                 /\ UNCHANGED <<result, events>>
    /\ Post
    /\ UNCHANGED binds

\* self.map_directories(): the destinations are bound in the order of the data
\* map; the first bind that fails raises and leaves the earlier ones bound
UnlockMapDirectories ==
    /\ pc = "map"
    /\ \E k \in 0..Len(DataMap) :
         /\ trace' = Append(trace, <<"bind">>)
         /\ binds' = binds \cup {DataMap[j] : j \in 1..k}
         /\ IF k = Len(DataMap)
            THEN /\ pc' = "live_config"
                 /\ UNCHANGED <<result, events, syslogged>>
            ELSE PostStartFailure(events, "Could not bind")
    /\ Post
    /\ UNCHANGED tmpfiles

\* self._live_env.extract_live_config_scripts()
UnlockExtractLiveConfig ==
    /\ pc = "live_config"
    /\ \E ok \in BOOLEAN :
         /\ trace' = Append(trace, <<"live-config">>)
         /\ IF ok
            THEN /\ pc' = "ssh"
                 /\ UNCHANGED <<result, events, syslogged>>
            ELSE PostStartFailure(events, "Error extracting live config. code")
    /\ Post
    /\ UNCHANGED tmpfiles
    /\ UNCHANGED binds

\* self._live_env.configure_ssh_keys(): a failed ssh-keygen is sent to the event
\* sink and the function goes on, to fail on the key file that is not there; a
\* failed restart of sshd raises unless the unit does not exist
UnlockSshKeys ==
    /\ pc = "ssh"
    /\ \E outcome \in {"ok", "keygen-failed", "pubkey-failed", "restart-failed", "no-sshd"} :
         /\ trace' = Append(trace, <<"ssh">>)
         /\ CASE outcome = "keygen-failed" ->
                   PostStartFailure(
                       add_exception_event(
                           add_exception_event(events, "ssh-privatekey-generation", "err"),
                           "ssh-publickey-generation", "err"),
                       "FileNotFoundError")
              [] outcome = "pubkey-failed" ->
                   PostStartFailure(
                       add_exception_event(events, "ssh-publickey-generation", "err"),
                       "FileNotFoundError")
              [] outcome = "restart-failed" ->
                   PostStartFailure(events, "Could not restart SSHD service after keys update")
              [] OTHER ->
                   /\ pc' = "post_script"
                   /\ UNCHANGED <<result, events, syslogged>>
    /\ Post
    /\ UNCHANGED tmpfiles
    /\ UNCHANGED binds

\* the post unlock script, then return (blob0, int_password, data_password)
UnlockPostScript ==
    /\ pc = "post_script"
    /\ \E outcome \in {"absent", "ok", "failed"} :
         /\ trace' = Append(trace, <<"post-script">>)
         /\ IF outcome = "failed"
            THEN PostStartFailure(events, "Could not execute post unlock script")
            ELSE /\ result' = Returned(<<loc.blob0, loc.int_password, loc.data_password>>)
                 /\ pc' = "idle"
                 /\ UNCHANGED <<events, syslogged>>
    /\ Post
    /\ UNCHANGED tmpfiles
    /\ UNCHANGED binds

\* ------------------------------------------------------------ specification
\* the device found at start up, nothing mounted and no unlock() running
InitDevice ==
    /\ \E t \in Tampers, st \in Stores :
         /\ dev = Tampered(RefDevice, t)
         /\ blob0json = IF t = "blob0_missing" THEN <<>> ELSE st
    /\ mounted = {}
    /\ secrets = {}
    /\ dataDir = FALSE
    /\ pc = "idle"
    /\ self = 0
    /\ loc = NoLoc
    /\ trace = <<>>
    /\ result = NoResult
    /\ events = {}
    /\ syslogged = {}
    /\ calls = 0
    /\ binds = {}
    /\ tmpfiles = {}
    /\ fs = RootFs
    /\ libcall = NoOp
    /\ builder = NoBuilder
    /\ form = NoForm
    /\ sink = NoSink
    /\ racers = NoRacers

\* The process as the start up program sets it up: one Environ, made while the
\* device is locked, and the BootProcessWKS singleton got from it.
Init ==
    /\ InitDevice
    /\ envs = [e \in EnvIds |->
                 IF e = 1
                 THEN [exists |-> TRUE,
                       unlocked |-> update_unlocked_status(dev.build_type, mounted)]
                 ELSE NoEnv]
    /\ instances = <<NewInstance(1)>>
    /\ singleton = 1
    /\ returned = 1

Next ==
    \/ \E i \in 1..Len(instances), p \in Passwords : UnlockCall(i, p)
    \/ UnlockVerify
    \/ UnlockBlob0
    \/ UnblockBlob1
    \/ UnblockChunks
    \/ UnblockLive
    \/ UnblockFingerprint
    \/ UnblockLoadIntPass
    \/ UnblockDecryptIntPass
    \/ OpenInternalSecret
    \/ OpenInternalMount
    \/ OpenDataPass
    \/ OpenDataSecret
    \/ OpenDataMakedirs
    \/ OpenDataMount
    \/ UnlockUpdateStatus
    \/ UnlockChpasswd
    \/ UnlockGdm
    \/ UnlockExtractPrivdata
    \/ UnlockMapDirectories
    \/ UnlockExtractLiveConfig
    \/ UnlockSshKeys
    \/ UnlockPostScript

Spec == Init /\ [][Next]_vars

\* The objects of the process: Environ and BootProcessWKS constructions and
\* get_instance calls, in any order.
InitObjects ==
    /\ InitDevice
    /\ envs = [e \in EnvIds |-> NoEnv]
    /\ instances = <<>>
    /\ singleton = 0
    /\ returned = 0

NextObjects ==
    \/ \E e \in EnvIds : NewEnviron(e)
    \/ \E e \in EnvIds : Construct(e)
    \/ \E arg \in EnvIds \cup {0} : get_instance(arg)

SpecObjects == InitObjects /\ [][NextObjects]_vars

\* ---------------------------------------------------------------- shutdown
\* what a shutdown step leaves alone
ShutdownFrame == UNCHANGED <<dev, sink, racers, builder, form, blob0json, secrets, dataDir, envs, instances,
                             singleton, returned, self, loc, events, tmpfiles, fs>>

\* the except clause of prepare_shutdown letting the error reach the caller
ShutdownFailureUncaught(msg) ==
    /\ syslogged' = syslogged
    /\ result' = Raised(Exc("Exception", msg))
    /\ pc' = "idle"

\* except Exception as e: syslog(LOG_WARNING, "Error unmount partition: ...")
ShutdownFailure(msg) ==
    /\ syslogged' = syslogged \cup {Inner(msg, "shutdown", FALSE)}
    /\ result' = Returned(<<>>)
    /\ pc' = "idle"

\* prepare_shutdown(), up to the test of the map file in unmap_directories
ShutdownCall(i) ==
    /\ pc = "idle"
    /\ calls < MaxCalls
    /\ calls' = calls + 1
    /\ libcall' = [name |-> "prepare_shutdown", i |-> 1]
    /\ pc' = IF fs.map_file THEN "unbind" ELSE "umount_data"
    /\ result' = NoResult
    /\ syslogged' = {}
    /\ UNCHANGED <<mounted, binds, trace>>
    /\ ShutdownFrame

\* one turn of the loop of unmap_directories: umount of the next destination;
\* a status other than 0 raises out of the loop and out of unmap_directories
ShutdownUnbind ==
    /\ pc = "unbind"
    /\ libcall.i <= Len(DataMap)
    /\ LET dest == DataMap[libcall.i]
       IN  \E status \in {0, 32} :
             /\ status = 0 => dest \in binds
             /\ trace' = Append(trace, <<"unbind", dest>>)
             /\ IF status = 0
                THEN /\ binds' = binds \ {dest}
                     /\ libcall' = [libcall EXCEPT !.i = @ + 1]
                     /\ pc' = IF libcall.i = Len(DataMap) THEN "umount_data" ELSE "unbind"
                     /\ UNCHANGED <<result, syslogged>>
                ELSE /\ ShutdownFailure("Could not unbind")
                     /\ UNCHANGED <<binds, libcall>>
    /\ UNCHANGED <<mounted, calls>>
    /\ ShutdownFrame

\* self._dev.umount(partid_data), which may raise; internal is left mounted
ShutdownUmountData ==
    /\ pc = "umount_data"
    /\ \E ok \in BOOLEAN :
         /\ trace' = Append(trace, <<"umount", partid_data>>)
         /\ IF ok
            THEN /\ mounted' = DevUmount(mounted, partid_data)
                 /\ result' = Returned(<<>>)
                 /\ pc' = "idle"
                 /\ UNCHANGED syslogged
            ELSE /\ ShutdownFailure("umount-failure")
                 /\ UNCHANGED mounted
    /\ UNCHANGED <<binds, libcall, calls>>
    /\ ShutdownFrame

\* The system when shutdown is prepared: after an unlock that went through,
\* after one that failed while binding or while opening data, or still locked.
InitShutdown ==
    /\ dev = RefDevice
    /\ blob0json = <<SlotHardened>>
    /\ \E m \in {{}, {partid_efi, partid_live, partid_internal},
                 {partid_efi, partid_live, partid_internal, partid_data}},
          k \in 0..Len(DataMap), mf \in BOOLEAN :
         /\ k > 0 => partid_data \in m /\ mf
         /\ mounted = m
         /\ binds = {DataMap[j] : j \in 1..k}
         /\ fs = [RootFs EXCEPT !.map_file = mf]
         /\ secrets = m \cap {partid_internal, partid_data}
         /\ dataDir = (partid_data \in m)
    /\ envs = [e \in EnvIds |->
                 IF e = 1
                 THEN [exists |-> TRUE,
                       unlocked |-> update_unlocked_status(dev.build_type, mounted)]
                 ELSE NoEnv]
    /\ instances = <<NewInstance(1)>>
    /\ singleton = 1
    /\ returned = 1
    /\ pc = "idle"
    /\ self = 1
    /\ loc = NoLoc
    /\ trace = <<>>
    /\ result = NoResult
    /\ events = {}
    /\ syslogged = {}
    /\ calls = 0
    /\ tmpfiles = {}
    /\ libcall = NoOp
    /\ builder = NoBuilder
    /\ form = NoForm
    /\ sink = NoSink
    /\ racers = NoRacers

NextShutdown ==
    \/ \E i \in 1..Len(instances) : ShutdownCall(i)
    \/ ShutdownUnbind
    \/ ShutdownUmountData

SpecShutdown == InitShutdown /\ [][NextShutdown]_vars

\* ------------------------------------------------- PRIVDATA and live-config
\* what an extraction step leaves alone
ExtractFrame == UNCHANGED <<dev, sink, racers, builder, form, blob0json, mounted, secrets, dataDir, envs, instances,
                            singleton, returned, self, loc, trace, events, binds, fs>>

\* extract_privdata() / extract_live_config_scripts(), up to the decryption
ExtractCall(name) ==
    /\ pc = "idle"
    /\ calls < MaxCalls
    /\ calls' = calls + 1
    /\ syslogged' = {}
    /\ LET archive == IF name = "extract_privdata" THEN fs.privdata_enc
                      ELSE fs.live_config_enc
       IN  IF archive /\ fs.privkey
           THEN \E ok \in BOOLEAN :
                  IF ok
                  THEN /\ tmpfiles' = tmpfiles \cup {TmpObj(name, calls')}
                       /\ libcall' = [name |-> name, i |-> 1, extracted |-> FALSE,
                                      resfile |-> {TmpObj(name, calls')}]
                       /\ pc' = "tar"
                       /\ result' = NoResult
                  ELSE /\ libcall' = [name |-> name, i |-> 1, extracted |-> FALSE,
                                      resfile |-> {}]
                       /\ result' = Raised(Exc("Exception", "decrypt-failure"))
                       /\ pc' = "idle"
                       /\ UNCHANGED tmpfiles
           ELSE /\ libcall' = [name |-> name, i |-> 1, extracted |-> FALSE,
                               resfile |-> {}]
                /\ IF name = "extract_privdata"
                   THEN pc' = "components" /\ result' = NoResult
                   ELSE pc' = "idle" /\ result' = Returned(<<>>)
                /\ UNCHANGED tmpfiles
    /\ ExtractFrame

\* util.exec_sync(["tar", "xf", resfile.name, "-C", ...]); a status other than
\* 0 raises; extract_live_config_scripts returns after it
ExtractTar ==
    /\ pc = "tar"
    /\ \E status \in {0, 2} :
         IF status # 0
         THEN /\ result' = Raised(Exc("Exception", "Error extracting"))
              /\ pc' = "idle"
              /\ tmpfiles' = ReleaseLocals(tmpfiles, libcall.resfile)
              /\ UNCHANGED libcall
         ELSE IF libcall.name = "extract_privdata"
              THEN /\ pc' = "components"
                   /\ libcall' = [libcall EXCEPT !.extracted = TRUE]
                   /\ UNCHANGED <<result, tmpfiles>>
              ELSE /\ pc' = "idle"
                   /\ result' = Returned(<<>>)
                   /\ libcall' = [libcall EXCEPT !.extracted = TRUE]
                   /\ tmpfiles' = ReleaseLocals(tmpfiles, libcall.resfile)
    /\ UNCHANGED <<syslogged, calls>>
    /\ ExtractFrame

\* one turn of the loop over os.listdir(privtmp): the component is put into an
\* intermediate tar which is extracted in /; a failure is logged and the loop
\* goes on.  After the last component the function returns.
ExtractComponent ==
    /\ pc = "components"
    /\ LET components == IF libcall.extracted THEN Components ELSE <<>>
       IN  IF libcall.i > Len(components)
           THEN /\ pc' = "idle"
                /\ result' = Returned(<<>>)
                /\ tmpfiles' = ReleaseLocals(tmpfiles, libcall.resfile)
                /\ UNCHANGED <<libcall, syslogged>>
           ELSE \E ok \in BOOLEAN :
                  /\ tmpfiles' = CopyComponent(tmpfiles, components[libcall.i], calls)
                  /\ syslogged' = IF ok THEN syslogged
                                  ELSE syslogged \cup
                                       {Inner("Failed to extact PRIVDATA for component",
                                              "privdata", FALSE)}
                  /\ libcall' = [libcall EXCEPT !.i = @ + 1]
                  /\ UNCHANGED <<pc, result>>
    /\ UNCHANGED calls
    /\ ExtractFrame

\* The live Linux when the archives are extracted: they and the private key
\* are there or not, no temporary file is left from the start up.
InitExtract ==
    /\ dev = RefDevice
    /\ blob0json = <<SlotHardened>>
    /\ mounted = {partid_efi, partid_live, partid_internal, partid_data}
    /\ secrets = {partid_internal, partid_data}
    /\ dataDir = TRUE
    /\ envs = [e \in EnvIds |-> IF e = 1 THEN [exists |-> TRUE, unlocked |-> TRUE]
                                ELSE NoEnv]
    /\ instances = <<NewInstance(1)>>
    /\ singleton = 1
    /\ returned = 1
    /\ pc = "idle"
    /\ self = 1
    /\ loc = NoLoc
    /\ trace = <<>>
    /\ result = NoResult
    /\ events = {}
    /\ syslogged = {}
    /\ calls = 0
    /\ binds = {}
    /\ tmpfiles = {}
    /\ \E pe, le, pk \in BOOLEAN :
         fs = [RootFs EXCEPT !.privdata_enc = pe, !.live_config_enc = le, !.privkey = pk]
    /\ libcall = NoOp
    /\ builder = NoBuilder
    /\ form = NoForm
    /\ sink = NoSink
    /\ racers = NoRacers

NextExtract ==
    \/ \E name \in {"extract_privdata", "extract_live_config_scripts"} : ExtractCall(name)
    \/ ExtractTar
    \/ ExtractComponent

SpecExtract == InitExtract /\ [][NextExtract]_vars

\* -------------------------------------------------------- users management
\* display names given to declare_user and delete_user, in ascending order of
\* their strings
Cns == <<"Alice", "Bob">>
CnOrder == <<"Alice", "Bob">>

\* cpass.generate_salt() and uuid.uuid4(): one of a few values
Salts == {<<"salt-1">>, <<"salt-2">>}
Uuids == {"uuid-1", "uuid-2", "uuid-3"}

\* the passwords users are given
NewPasswords == {<<"pw1">>, <<"pw2">>}

\* what a call of the users management functions returns or raises, with the
\* blob0.json it leaves
Done(users, value) == [raised |-> FALSE, msg |-> "", value |-> value, users |-> users]
Failed(users, msg) == [raised |-> TRUE, msg |-> msg, value |-> <<>>, users |-> users]

\* index of the first slot, at or after i, the loop of declare_user stops at
RECURSIVE FirstNamed(_, _, _)
FirstNamed(users, name, i) ==
    IF i > Len(users) THEN 0
    ELSE IF users[i].cn = name /\ users[i].mode = "password" THEN i
    ELSE FirstNamed(users, name, i + 1)

\* declare_user writing the new key into every slot of that name
declare_user_every_slot(users, name, user_password, blob0, salt, fresh) ==
    LET password == harden_password_for_blob0(user_password, salt)
    IN  Done([k \in 1..Len(users) |->
                 [users[k] EXCEPT !.encblob = Encrypt("enc-blob", password, blob0),
                                  !.salt = salt, !.hasSalt = TRUE]], <<>>)

\* declare_user encrypting under the password as given, without salt
declare_user_unsalted(users, name, user_password, blob0, salt, fresh) ==
    LET k == FirstNamed(users, name, 1)
    IN  IF k # 0
        THEN Done([users EXCEPT ![k].encblob = Encrypt("enc-blob", user_password, blob0)],
                  <<>>)
        ELSE Done(Append(users, Slot(fresh, name, <<>>, user_password)), <<>>)

\* declare_user appending a slot whether or not the name is there
declare_user_append(users, name, user_password, blob0, salt, fresh) ==
    Done(Append(users, Slot(fresh, name, salt,
                            harden_password_for_blob0(user_password, salt))), <<>>)

\* declare_user(dummy_mountpoint, name, user_password, blob0); salt and fresh
\* are the values generate_salt() and uuid4() give in this call
declare_user(users, name, user_password, blob0, salt, fresh) ==
    LET password == harden_password_for_blob0(user_password, salt)
        k == FirstNamed(users, name, 1)
    IN  IF k # 0
        THEN Done([users EXCEPT ![k].encblob = Encrypt("enc-blob", password, blob0),
                                ![k].salt = salt, ![k].hasSalt = TRUE], <<>>)
        ELSE Done(Append(users, Slot(fresh, name, salt, password)), <<>>)

\* res.sort(): insertion of a name in a sorted list, by the order of the strings
Rank(cn) == CHOOSE r \in 1..Len(CnOrder) : CnOrder[r] = cn
RECURSIVE Insert(_, _)
Insert(sorted, cn) ==
    IF sorted = <<>> THEN <<cn>>
    ELSE IF Rank(cn) <= Rank(Head(sorted)) THEN <<cn>> \o sorted
    ELSE <<Head(sorted)>> \o Insert(Tail(sorted), cn)

RECURSIVE Sort(_)
Sort(res) == IF res = <<>> THEN <<>> ELSE Insert(Sort(Tail(res)), Head(res))

\* get_users returning the names in the order of the file
get_users_unsorted(users) ==
    IF users = <<>> THEN Failed(users, "Device has not yet been initialized")
    ELSE Done(users, [k \in 1..Len(users) |-> users[k].cn])

\* get_users(dummy_mountpoint)
get_users(users) ==
    IF users = <<>> THEN Failed(users, "Device has not yet been initialized")
    ELSE Done(users, Sort([k \in 1..Len(users) |-> users[k].cn]))

\* the slots delete_user keeps
RECURSIVE Undeclare(_, _)
Undeclare(users, name) ==
    IF users = <<>> THEN <<>>
    ELSE IF Head(users).cn = name THEN Undeclare(Tail(users), name)
    ELSE <<Head(users)>> \o Undeclare(Tail(users), name)

\* delete_user without the test of the number of slots
delete_user_unguarded(users, name) ==
    IF users = <<>> THEN Failed(users, "Device has not yet been initialized")
    ELSE Done(Undeclare(users, name), <<>>)

\* delete_user(dummy_mountpoint, name, internal_mountpoint), as far as
\* blob0.json goes
delete_user(users, name) ==
    IF users = <<>> THEN Failed(users, "Device has not yet been initialized")
    ELSE IF Len(users) = 1 THEN Failed(users, "Can't remove user when there is only one")
    ELSE Done(Undeclare(users, name), <<>>)

\* index of the first slot, at or after i, whose enc-blob decrypts under the
\* current password: hardened first, then plain
RECURSIVE FirstDecrypting(_, _, _)
FirstDecrypting(users, current_password, i) ==
    IF i > Len(users) THEN 0
    ELSE IF SlotBlob0(users[i], current_password).ok THEN i
    ELSE FirstDecrypting(users, current_password, i + 1)

\* change_user_password declaring the user with the current password in the
\* place of the blob0 it decrypted
change_user_password_blob0_lost(users, current_password, new_password, salt, fresh) ==
    IF current_password = new_password THEN Done(users, <<>>)
    ELSE IF users = <<>> THEN Failed(users, "Device has not yet been initialized")
    ELSE LET k == FirstDecrypting(users, current_password, 1)
         IN  IF k # 0
             THEN declare_user(users, users[k].cn, new_password,
                               current_password, salt, fresh)
             ELSE Failed(users, "Invalid password")

\* change_user_password(dummy_mountpoint, current_password, new_password)
change_user_password(users, current_password, new_password, salt, fresh) ==
    IF current_password = new_password THEN Done(users, <<>>)
    ELSE IF users = <<>> THEN Failed(users, "Device has not yet been initialized")
    ELSE LET k == FirstDecrypting(users, current_password, 1)
         IN  IF k # 0
             THEN declare_user(users, users[k].cn, new_password,
                               SlotBlob0(users[k], current_password).plain, salt, fresh)
             ELSE Failed(users, "Invalid password")

\* reset_user_password(dummy_mountpoint, name, user_password, blob0)
reset_user_password(users, name, user_password, blob0, salt, fresh) ==
    declare_user(users, name, user_password, blob0, salt, fresh)

\* the outcome of a call as its caller sees it
Outcome(r) ==
    IF r.raised THEN Raised(Exc("Exception", r.msg)) ELSE Returned(r.value)

UuidsOf(users) == {users[k].uuid : k \in 1..Len(users)}

\* what a users management call leaves alone
StoreFrame == UNCHANGED <<dev, sink, racers, builder, form, mounted, secrets, dataDir, envs, instances, singleton,
                          returned, pc, self, loc, trace, events, calls,
                          binds, tmpfiles>>

\* the call made, with its arguments, the number of slots it found, the index
\* of the slot its loop stopped at (0: none) and whether that slot had a salt
Call(name, cn, current, password, k) ==
    [name |-> name, cn |-> cn, current |-> current, password |-> password,
     slots |-> Len(blob0json), k |-> k, internal_mp |-> FALSE,
     salted |-> IF k = 0 THEN FALSE ELSE blob0json[k].hasSalt]

\* the values uuid4() can give when declare_user comes to call it
Fresh(users, name) ==
    IF FirstNamed(users, name, 1) # 0 THEN {None} ELSE Uuids \ UuidsOf(users)

\* the slots of a device formatted by this or by an earlier release
StoreInits ==
    { <<>>, <<SlotHardened>>, <<SlotLegacySalt, SlotHardened>>,
      <<Slot("uuid-2", "Bob", <<>>, <<"pw2">>), SlotHardened>> }

DeclareUser(name, user_password) ==
    /\ pc = "idle"
    /\ \E salt \in Salts, fresh \in Fresh(blob0json, name) :
         LET r == declare_user(blob0json, name, user_password, Blob0Value, salt, fresh)
         IN  /\ blob0json' = r.users
             /\ result' = Outcome(r)
    /\ libcall' = Call("declare_user", name, <<>>, user_password,
                       FirstNamed(blob0json, name, 1))
    /\ UNCHANGED <<fs, syslogged>>
    /\ StoreFrame

GetUsers ==
    /\ pc = "idle"
    /\ result' = Outcome(get_users(blob0json))
    /\ libcall' = Call("get_users", "", <<>>, <<>>, 0)
    /\ UNCHANGED <<blob0json, fs, syslogged>>
    /\ StoreFrame

\* delete_user that stops at a failed rmtree with the directory left
DeleteUserConfigKept(name, internal_mountpoint) ==
    /\ pc = "idle"
    /\ LET r == delete_user(blob0json, name)
       IN  /\ blob0json' = r.users
           /\ result' = Outcome(r)
    /\ libcall' = [Call("delete_user", name, <<>>, <<>>, 0)
                      EXCEPT !.internal_mp = internal_mountpoint]
    /\ UNCHANGED <<fs, syslogged>>
    /\ StoreFrame

\* delete_user, with the removal of user-config/<uuid> of the slots removed
\* when internal_mountpoint is given; a failed rmtree of a directory that is
\* there is written to syslog and the call goes on
DeleteUser(name, internal_mountpoint) ==
    /\ pc = "idle"
    /\ LET r == delete_user(blob0json, name)
           removed == UuidsOf(blob0json) \ UuidsOf(r.users)
           there == removed \cap fs.user_config
       IN  /\ blob0json' = r.users
           /\ result' = Outcome(r)
           /\ IF internal_mountpoint /\ there # {}
              THEN \E ok \in BOOLEAN :
                     IF ok
                     THEN /\ fs' = [fs EXCEPT !.user_config = @ \ removed]
                          /\ syslogged' = {}
                     ELSE /\ fs' = fs
                          /\ syslogged' = {Inner("Could not remove user config data",
                                                 "rmtree", FALSE)}
              ELSE /\ fs' = fs
                   /\ syslogged' = {}
    /\ libcall' = [Call("delete_user", name, <<>>, <<>>, 0)
                      EXCEPT !.internal_mp = internal_mountpoint]
    /\ StoreFrame

ChangeUserPassword(current_password, new_password) ==
    /\ pc = "idle"
    /\ \E salt \in Salts :
         LET r == change_user_password(blob0json, current_password, new_password,
                                       salt, None)
         IN  /\ blob0json' = r.users
             /\ result' = Outcome(r)
    /\ libcall' = Call("change_user_password", "", current_password, new_password,
                       FirstDecrypting(blob0json, current_password, 1))
    /\ UNCHANGED <<fs, syslogged>>
    /\ StoreFrame

ResetUserPassword(name, user_password) ==
    /\ pc = "idle"
    /\ \E salt \in Salts, fresh \in Fresh(blob0json, name) :
         LET r == reset_user_password(blob0json, name, user_password, Blob0Value,
                                      salt, fresh)
         IN  /\ blob0json' = r.users
             /\ result' = Outcome(r)
    /\ libcall' = Call("reset_user_password", name, <<>>, user_password,
                       FirstNamed(blob0json, name, 1))
    /\ UNCHANGED <<fs, syslogged>>
    /\ StoreFrame

\* The dummy partition as the users management functions find it: not yet
\* initialized, or with the slots of a formatted device.
InitStore ==
    /\ dev = RefDevice
    /\ blob0json \in StoreInits
    /\ mounted = {partid_dummy}
    /\ secrets = {}
    /\ dataDir = FALSE
    /\ envs = [e \in EnvIds |-> NoEnv]
    /\ instances = <<>>
    /\ singleton = 0
    /\ returned = 0
    /\ pc = "idle"
    /\ self = 0
    /\ loc = NoLoc
    /\ trace = <<>>
    /\ result = NoResult
    /\ events = {}
    /\ syslogged = {}
    /\ calls = 0
    /\ binds = {}
    /\ tmpfiles = {}
    /\ fs = [RootFs EXCEPT !.user_config = UuidsOf(blob0json)]
    /\ libcall = NoOp
    /\ builder = NoBuilder
    /\ form = NoForm
    /\ sink = NoSink
    /\ racers = NoRacers

NextStore ==
    \/ \E i \in 1..Len(Cns), p \in NewPasswords : DeclareUser(Cns[i], p)
    \/ GetUsers
    \/ \E i \in 1..Len(Cns), imp \in BOOLEAN : DeleteUser(Cns[i], imp)
    \/ \E c \in Passwords, n \in NewPasswords : ChangeUserPassword(c, n)
    \/ \E i \in 1..Len(Cns), p \in NewPasswords : ResetUserPassword(Cns[i], p)

SpecStore == InitStore /\ [][NextStore]_vars

\* ------------------------------------- users management calls interleaved
\* Two processes each make one call of declare_user, delete_user or
\* change_user_password; a step is a read of blob0.json with what the call
\* does until it next touches the file, or the write of the file.
RaceFrame == UNCHANGED <<dev, sink, builder, form, mounted, secrets, dataDir, envs, instances,
                         singleton, returned, pc, self, loc, trace, events, calls,
                         binds, tmpfiles, fs, syslogged>>

\* a write that keeps the slots of the file the new content does not name
write_data_merged(old, data) ==
    data \o SelectSeq(old, LAMBDA e : e.uuid \notin UuidsOf(data))

\* util.write_data_to_file(data, path): the file holds data and nothing else
write_data_to_file(old, data) == data

\* json.dumps(users) of the call r when it comes to write: what the function
\* makes of the users it read
Computed(r) ==
    IF r.op = "delete_user" THEN delete_user(r.users, r.name).users
    ELSE declare_user(r.users, r.name, r.password, r.blob0, r.salt, r.fresh).users

\* declare_user up to its write, entered by process p for the call op: the salt
\* is generated, blob0.json read if it exists, the slot changed or made
DeclareRead(p, op, name, user_password, blob0) ==
    /\ \E salt \in Salts, fresh \in Fresh(blob0json, name) :
         racers' = [racers EXCEPT ![p] =
                       [op |-> op, phase |-> "write", name |-> name,
                        password |-> user_password, blob0 |-> blob0,
                        salt |-> salt, fresh |-> fresh, users |-> blob0json]]
    /\ libcall' = [name |-> "read", by |-> p]
    /\ UNCHANGED <<blob0json, result>>

\* process p calls declare_user(dmp, name, user_password, blob0)
RaceDeclareUser(p, name, user_password) ==
    /\ racers[p].phase = "idle"
    /\ DeclareRead(p, "declare_user", name, user_password, Blob0Value)
    /\ RaceFrame

\* process p calls delete_user(dmp, name, None): the read and the two tests
RaceDeleteUser(p, name) ==
    /\ racers[p].phase = "idle"
    /\ LET r == delete_user(blob0json, name)
       IN  /\ racers' = [racers EXCEPT ![p] =
                            [NoRacer EXCEPT !.op = "delete_user", !.name = name,
                                            !.users = blob0json,
                                            !.phase = IF r.raised THEN "done"
                                                      ELSE "write"]]
           /\ result' = IF r.raised THEN Outcome(r) ELSE result
    /\ libcall' = [name |-> "read", by |-> p]
    /\ UNCHANGED blob0json
    /\ RaceFrame

\* process p calls change_user_password(dmp, current_password, new_password):
\* its own read of blob0.json and the search of the slot that decrypts
RaceChangeUserPassword(p, current_password, new_password) ==
    /\ racers[p].phase = "idle"
    /\ LET k == FirstDecrypting(blob0json, current_password, 1)
           r == change_user_password(blob0json, current_password, new_password,
                                     <<>>, None)
           found == current_password # new_password /\ blob0json # <<>> /\ k # 0
       IN  /\ racers' = [racers EXCEPT ![p] =
                  IF found
                  THEN [NoRacer EXCEPT !.op = "change_user_password",
                                       !.phase = "declare",
                                       !.name = blob0json[k].cn,
                                       !.password = new_password,
                                       !.blob0 = SlotBlob0(blob0json[k], current_password).plain,
                                       !.users = blob0json]
                  ELSE [NoRacer EXCEPT !.op = "change_user_password",
                                       !.phase = "done", !.users = blob0json]]
           /\ result' = IF found THEN result ELSE Outcome(r)
    /\ libcall' = [name |-> "read", by |-> p]
    /\ UNCHANGED blob0json
    /\ RaceFrame

\* change_user_password of process p going on with
\* declare_user(dmp, userdata["cn"], new_password, blob0)
RaceChangeDeclare(p) ==
    /\ racers[p].phase = "declare"
    /\ DeclareRead(p, "change_user_password", racers[p].name, racers[p].password,
                   racers[p].blob0)
    /\ RaceFrame

\* util.write_data_to_file(json.dumps(users), path) of process p, and the
\* return of its call
RaceWrite(p) ==
    /\ racers[p].phase = "write"
    /\ blob0json' = write_data_to_file(blob0json, Computed(racers[p]))
    /\ racers' = [racers EXCEPT ![p].phase = "done"]
    /\ libcall' = [name |-> "write", by |-> p, over |-> blob0json]
    /\ result' = Returned(<<>>)
    /\ RaceFrame

InitRace ==
    /\ InitStore

NextRace ==
    \/ \E p \in Procs, i \in 1..Len(Cns), pw \in NewPasswords : RaceDeclareUser(p, Cns[i], pw)
    \/ \E p \in Procs, i \in 1..Len(Cns) : RaceDeleteUser(p, Cns[i])
    \/ \E p \in Procs, c \in Passwords, n \in NewPasswords : RaceChangeUserPassword(p, c, n)
    \/ \E p \in Procs : RaceChangeDeclare(p)
    \/ \E p \in Procs : RaceWrite(p)

SpecRace == InitRace /\ [][NextRace]_vars

\* --------------------------------------------------------- the live builder
\* what a step of the builder leaves alone
BuilderFrame == UNCHANGED <<dev, sink, racers, form, blob0json, mounted, secrets, dataDir, envs,
                            instances, singleton, returned, self, loc, trace, events,
                            syslogged, binds, tmpfiles, fs, calls>>

\* Builder._privdata_pubkey when bconf.privdata_pubkey names a key file
PrivdataPubkey == <<"privdata-ekey.pub">>
\* what os.listdir may return for <fs>/privdata and <fs>/live-config: the
\* directories of the components that produced something, in any order
Listings ==
    {<<>>, <<Components[1]>>, <<Components[2]>>,
     <<Components[1], Components[2]>>, <<Components[2], Components[1]>>}
ResDirs == {NoDir} \cup {Dir(l) : l \in Listings}

NoExc == Exc("", "")
Sealed(b, raised, exc) == [b |-> b, raised |-> raised, exc |-> exc]

\* _encrypt_privdata with the check of the public key left out
encrypt_resources_unchecked(b, dir, res_file, enc_file, msg, ok) ==
    LET resources == b[dir].listing
    IN  IF ~b[dir].exists THEN Sealed(b, FALSE, NoExc)
        ELSE IF Len(resources) = 0 THEN Sealed(b, FALSE, NoExc)
        ELSE LET tarred == [b EXCEPT ![res_file] = FileOf(resources)]
             IN  IF ~ok THEN Sealed(tarred, TRUE, Exc("Exception", "encrypt-failure"))
                 ELSE LET enc == [tarred EXCEPT ![enc_file] =
                                     FileOf(Encrypt(enc_file, b.privdata_pubkey, resources))]
                      IN  IF b.dry_mode THEN Sealed(enc, FALSE, NoExc)
                          ELSE Sealed([enc EXCEPT ![res_file] = NoFile, ![dir] = NoDir],
                                      FALSE, NoExc)

\* Builder._encrypt_privdata and Builder._encrypt_live_config_code, which differ
\* by the directory, the archive and the message only: nothing when the
\* directory is absent or empty, an exception when no public key was given,
\* else <dir>.tar with the entries in the order of os.listdir, <dir>.tar.enc,
\* and the removal of the archive and the directory unless in dry mode. ok is
\* whether tarfile, CryptoKey.encrypt and copy_to went through
encrypt_resources(b, dir, res_file, enc_file, msg, ok) ==
    LET resources == b[dir].listing
    IN  IF ~b[dir].exists THEN Sealed(b, FALSE, NoExc)
        ELSE IF Len(resources) = 0 THEN Sealed(b, FALSE, NoExc)
        ELSE IF b.privdata_pubkey = NoPubkey THEN Sealed(b, TRUE, Exc("Exception", msg))
        ELSE LET tarred == [b EXCEPT ![res_file] = FileOf(resources)]
             IN  IF ~ok THEN Sealed(tarred, TRUE, Exc("Exception", "encrypt-failure"))
                 ELSE LET enc == [tarred EXCEPT ![enc_file] =
                                     FileOf(Encrypt(enc_file, b.privdata_pubkey, resources))]
                      IN  IF b.dry_mode THEN Sealed(enc, FALSE, NoExc)
                          ELSE Sealed([enc EXCEPT ![res_file] = NoFile, ![dir] = NoDir],
                                      FALSE, NoExc)

NoPrivdataKey ==
    "Some components specified some PRIVDATA, but no encryption public key has been provided"
NoLiveConfigKey ==
    "Some components have specific init code, but no encryption public key has been provided"
encrypt_privdata(b, ok) == encrypt_resources(b, "privdata", "privdata_tar", "privdata_enc", NoPrivdataKey, ok)
encrypt_live_config_code(b, ok) ==
    encrypt_resources(b, "live_config", "live_config_tar", "live_config_enc",
                      NoLiveConfigKey, ok)

BuildData(b, record) == [b EXCEPT !.build_data = Append(@, record)]

\* A build is one run of the build program: prepare_build_dir, copy_resources
\* and build are called once each, in that order, on one Builder, and the run
\* ends with the first exception.
\* Builder.prepare_build_dir: the live-build container shreds the build
\* directory, then the directories of the build are created again
PrepareBuildDir ==
    /\ pc = "idle"
    /\ libcall = NoOp
    /\ libcall' = [name |-> "prepare_build_dir"]
    /\ \E ok \in BOOLEAN :
         IF ok
         THEN /\ builder' = [builder EXCEPT
                    !.privdata = NoDir, !.live_config = NoDir,
                    !.privdata_tar = NoFile, !.privdata_enc = NoFile,
                    !.live_config_tar = NoFile, !.live_config_enc = NoFile,
                    !.built_iso = FALSE]
              /\ result' = Returned(<<>>)
         ELSE /\ result' = Raised(Exc("Exception", "Could not clean build environment"))
              /\ UNCHANGED builder
    /\ UNCHANGED pc
    /\ BuilderFrame

\* Builder.copy_resources: the header of the build data, every component copied
\* and its prepare script run (which leave privdata and live_config in <fs>),
\* then the two sealing steps
CopyResources ==
    /\ pc = "idle"
    /\ libcall.name = "prepare_build_dir"
    /\ result.status = "returned"
    /\ \E prepared, okp, okl \in BOOLEAN, privdata, live_config \in ResDirs :
         LET copied == [BuildData(builder, "building") EXCEPT
                            !.privdata = privdata, !.live_config = live_config]
             p == encrypt_privdata(copied, okp)
             l == encrypt_live_config_code(p.b, okl)
         IN  /\ libcall' = [name |-> "copy_resources", prepared |-> prepared,
                            privdata |-> privdata, live_config |-> live_config]
             /\ IF ~prepared
                THEN /\ builder' = copied
                     /\ result' = Raised(Exc("Exception", "Prepare script failed"))
                ELSE IF p.raised
                THEN /\ builder' = p.b
                     /\ result' = Raised(p.exc)
                ELSE IF l.raised
                THEN /\ builder' = l.b
                     /\ result' = Raised(l.exc)
                ELSE /\ builder' = l.b
                     /\ result' = Returned(<<>>)
    /\ UNCHANGED pc
    /\ BuilderFrame

\* Builder.build up to util.exec_sync(["docker", "run", ..., "--rm", ...],
\* interrupt_callback=self._interrut_callback): the configuration is validated,
\* the mount options of the build directory checked, keyinfos.json written, the
\* last build log removed, "Started" recorded and the container launched
BuildCall ==
    /\ pc = "idle"
    /\ libcall.name = "copy_resources"
    /\ result.status = "returned"
    /\ libcall' = [name |-> "build"]
    /\ \E ok \in BOOLEAN :
         IF ok
         THEN /\ builder' = [BuildData(builder, "Started") EXCEPT
                    !.build_interrupted = FALSE, !.child = "running",
                    !.container = "running", !.customized = FALSE]
              /\ pc' = "container"
              /\ result' = NoResult
         ELSE /\ Raise(Exc("Exception", "Invalid build-dir"))
              /\ UNCHANGED builder
    /\ BuilderFrame

\* Builder._interrut_callback(child): the docker client is killed; the
\* container is neither killed nor removed by it
InterrutCallback ==
    /\ pc = "container"
    /\ builder.child = "running"
    /\ builder' = [builder EXCEPT !.build_interrupted = TRUE, !.child = "killed"]
    /\ UNCHANGED <<pc, result, libcall>>
    /\ BuilderFrame

\* the live-build container ends by itself: it leaves the built ISO or not,
\* docker removes it (--rm) and the docker client, if still there, exits
ContainerExit ==
    /\ pc = "container"
    /\ builder.container = "running"
    /\ \E iso \in BOOLEAN, status \in {"exited-0", "exited-1"} :
         builder' = [builder EXCEPT
             !.container = "removed", !.built_iso = iso,
             !.child = IF @ = "running" THEN status ELSE @]
    /\ UNCHANGED <<pc, result, libcall>>
    /\ BuilderFrame

\* Builder.build after exec_sync returned, with "Failed" recorded whether or
\* not the build was interrupted
BuildFinishFlagIgnored ==
    /\ pc = "container"
    /\ builder.child \in {"killed", "exited-0", "exited-1"}
    /\ IF builder.child # "exited-0" \/ ~builder.built_iso
       THEN /\ builder' = BuildData(builder, "Failed")
            /\ Raise(Exc("Exception", "Could not build Live image"))
       ELSE \E ok \in BOOLEAN :
              IF ok
              THEN /\ builder' = [BuildData(builder, "Finished") EXCEPT
                         !.built_iso = FALSE, !.customized = TRUE, !.image_file = TRUE]
                   /\ result' = Returned(<<>>)
                   /\ pc' = "idle"
              ELSE /\ builder' = [builder EXCEPT !.built_iso = FALSE, !.customized = TRUE]
                   /\ Raise(Exc("Exception", "Could not create new ISO file"))
    /\ UNCHANGED libcall
    /\ BuilderFrame

\* Builder.build after exec_sync returned: the build log is written; when the
\* status is not 0 or the built ISO is missing, "Interrupted" is recorded and
\* the container removed (docker rm -f) if the callback ran, "Failed" recorded
\* otherwise, and an exception raised; else _iso_image_customize removes the
\* built ISO and creates the image file, and "Finished" is recorded
BuildFinish ==
    /\ pc = "container"
    /\ builder.child \in {"killed", "exited-0", "exited-1"}
    /\ IF builder.child # "exited-0" \/ ~builder.built_iso
       THEN IF builder.build_interrupted
            THEN /\ builder' = [BuildData(builder, "Interrupted") EXCEPT
                                    !.container = "removed"]
                 /\ Raise(Exc("Exception", "Build interrupted"))
            ELSE /\ builder' = BuildData(builder, "Failed")
                 /\ Raise(Exc("Exception", "Could not build Live image"))
       ELSE \E ok \in BOOLEAN :
              IF ok
              THEN /\ builder' = [BuildData(builder, "Finished") EXCEPT
                         !.built_iso = FALSE, !.customized = TRUE, !.image_file = TRUE]
                   /\ result' = Returned(<<>>)
                   /\ pc' = "idle"
              ELSE /\ builder' = [builder EXCEPT !.built_iso = FALSE, !.customized = TRUE]
                   /\ Raise(Exc("Exception", "Could not create new ISO file"))
    /\ UNCHANGED libcall
    /\ BuilderFrame

InitBuilder ==
    /\ dev = RefDevice
    /\ blob0json = <<SlotHardened>>
    /\ mounted = {}
    /\ secrets = {}
    /\ dataDir = FALSE
    /\ envs = [e \in EnvIds |-> NoEnv]
    /\ instances = <<>>
    /\ singleton = 0
    /\ returned = 0
    /\ pc = "idle"
    /\ self = 0
    /\ loc = NoLoc
    /\ trace = <<>>
    /\ result = NoResult
    /\ events = {}
    /\ syslogged = {}
    /\ calls = 0
    /\ binds = {}
    /\ tmpfiles = {}
    /\ fs = RootFs
    /\ libcall = NoOp
    /\ form = NoForm
    /\ sink = NoSink
    /\ racers = NoRacers
    /\ \E key \in {NoPubkey, PrivdataPubkey}, dry_mode \in BOOLEAN :
         builder = [NoBuilder EXCEPT !.privdata_pubkey = key, !.dry_mode = dry_mode]

NextBuilder ==
    \/ PrepareBuildDir
    \/ CopyResources
    \/ BuildCall
    \/ InterrutCallback
    \/ ContainerExit
    \/ BuildFinish

SpecBuilder == InitBuilder /\ [][NextBuilder]_vars

\* ---------------------------------------------------------- the format page
\* what a callback of the format page leaves alone
FormFrame == UNCHANGED <<dev, sink, racers, builder, blob0json, mounted, secrets, dataDir, envs,
                         instances, singleton, returned, pc, self, loc, trace, events,
                         syslogged, calls, binds, tmpfiles, fs>>

\* the "core" parameters the user defines, in the order of _init_parameters_sets
UserParams == <<"password-user", "fs-data", "enctype-data">>
\* what the user may leave or type in an entry
EntryValues == {"", "typed-1", "typed-2"}
\* FormatConfig objects: the parameters of the configuration and its overrides
FormatConfig(parameters_config, overrides) ==
    [id |-> "format-1", parameters_config |-> parameters_config,
     overrides |-> overrides, password_rescue |-> "rescue-1",
     devicemeta_privkey |-> "meta-sign.priv"]
FormatConfigs ==
    {FormatConfig(pc0, ov) :
        pc0 \in {<<>>, <<"repo-user">>},
        ov \in {EmptyDict, "fs-data" :> "ext4", "enctype-data" :> "luks",
                "password-rescue" :> "rescue-2"}}

\* Params._init_parameters_sets: the names of self._fconf_params, in order
init_parameters_sets(fconf) == UserParams \o fconf.parameters_config

\* Params._generate_core_parameters
generate_core_parameters(fconf) ==
    "fs-data" :> "exfat" @@ "confid" :> fconf.id @@ "creation-date" :> "now"
    @@ "creation-date-ts" :> "now-ts" @@ "password-rescue" :> fconf.password_rescue
    @@ "device-signing-private-key-file" :> fconf.devicemeta_privkey

\* Params.create_widgets: the names given an entry (self._links), each empty
create_widgets(fconf) ==
    LET names == init_parameters_sets(fconf)
    IN  {names[i] : i \in {k \in DOMAIN names : names[k] \notin DOMAIN fconf.overrides}}

\* Params.get_format_valued_params: the generated parameters, then the value of
\* every entry (an exception on the first empty one), then the overrides of
\* the names already in the result
get_format_valued_params(fconf, links, values) ==
    LET names == init_parameters_sets(fconf)
        empty == {k \in DOMAIN names : names[k] \in links /\ values[names[k]] = ""}
        entered == [p \in links |-> values[p]] @@ generate_core_parameters(fconf)
        res == [p \in DOMAIN entered |->
                   IF p \in DOMAIN fconf.overrides THEN fconf.overrides[p]
                   ELSE entered[p]]
    IN  IF empty # {}
        THEN Raised(Exc("Exception", "invalid empty value"))
        ELSE Returned(res)

\* Component._params_changed_cb on the page f
params_changed_cb(f) ==
    LET cleared == [f EXCEPT !.final = FALSE, !.final_params = EmptyDict]
        pvalues == get_format_valued_params(f.fconf, f.links, f.values)
    IN  IF ~f.chosen THEN cleared
        ELSE IF pvalues.status = "raised" \/ ~f.selected
        THEN [cleared EXCEPT !.format_button = FALSE]
        ELSE [f EXCEPT !.final = TRUE, !.final_params = pvalues.value,
                       !.format_button = TRUE]

\* Component._update_form on the page f, self._fconf being f.current: the
\* entries are removed from the grid; with no configuration nothing else is
\* done; else a new Params object, its entries, then _params_changed_cb. An
\* exception of Params() is shown and nothing else done
update_form(f, outcome) ==
    LET removed == [f EXCEPT !.shown = FALSE]
        links == create_widgets(f.current)
    IN  IF f.current = NoFconf THEN removed
        ELSE IF outcome = "params-raised" THEN removed
        ELSE params_changed_cb([f EXCEPT !.chosen = TRUE, !.fconf = f.current,
                                         !.links = links, !.shown = TRUE,
                                         !.values = [p \in links |-> ""]])
UpdateOutcomes == {"ok", "params-raised"}

\* what get_format_valued_params gave if _params_changed_cb came to call it
\* on the page f, else what it gave before
LastValued(called, f, before) ==
    IF called THEN get_format_valued_params(f.fconf, f.links, f.values) ELSE before

\* Component._format_template_changed_cb: a format configuration is chosen,
\* or none is (NoFconf) when the list of templates has no active entry
FormatTemplateChanged(fconf) ==
    /\ \E outcome \in UpdateOutcomes :
         form' = update_form([form EXCEPT !.current = fconf], outcome)
    /\ result' = LastValued(form'.shown, form', result)
    /\ libcall' = [name |-> "_format_template_changed_cb"]
    /\ FormFrame

\* the "data_changed" signal of an entry shown in the grid:
\* Params._data_changed_cb, then Component._params_changed_cb
DataChanged(pname, value) ==
    /\ form.chosen /\ form.shown
    /\ pname \in form.links
    /\ value # form.values[pname]
    /\ form' = params_changed_cb([form EXCEPT !.values[pname] = value])
    /\ result' = LastValued(TRUE, form', result)
    /\ libcall' = [name |-> "_data_changed_cb"]
    /\ FormFrame

\* the "changed" signal of the list of plugged devices
DeviceChanged ==
    /\ form' = params_changed_cb([form EXCEPT !.selected = ~@])
    /\ result' = LastValued(form.chosen, form', result)
    /\ libcall' = [name |-> "_params_changed_cb"]
    /\ FormFrame

\* Component._format_device, run by the Format button when it is sensitive:
\* self._final_params goes to the params file, the dev-format job is made for
\* self._fconf.id (an exception when self._fconf is None) and runs, and the
\* form is set up again
FormatDevice ==
    /\ form.format_button
    /\ \E job \in BOOLEAN :
         libcall' = [name |-> "_format_device", params_file |-> form.final_params,
                     confid |-> form.current.id,
                     job |-> job /\ form.current # NoFconf]
    /\ \E outcome \in UpdateOutcomes : form' = update_form(form, outcome)
    /\ result' = LastValued(form'.shown, form', result)
    /\ FormFrame

InitFormatter ==
    /\ dev = RefDevice
    /\ blob0json = <<SlotHardened>>
    /\ mounted = {}
    /\ secrets = {}
    /\ dataDir = FALSE
    /\ envs = [e \in EnvIds |-> NoEnv]
    /\ instances = <<>>
    /\ singleton = 0
    /\ returned = 0
    /\ pc = "idle"
    /\ self = 0
    /\ loc = NoLoc
    /\ trace = <<>>
    /\ result = NoResult
    /\ events = {}
    /\ syslogged = {}
    /\ calls = 0
    /\ binds = {}
    /\ tmpfiles = {}
    /\ fs = RootFs
    /\ libcall = NoOp
    /\ builder = NoBuilder
    /\ form = NoForm
    /\ sink = NoSink
    /\ racers = NoRacers

NextFormatter ==
    \/ \E fconf \in FormatConfigs \cup {NoFconf} : FormatTemplateChanged(fconf)
    \/ \E pname \in {"password-user", "fs-data", "enctype-data", "repo-user"},
          value \in EntryValues : DataChanged(pname, value)
    \/ DeviceChanged
    \/ FormatDevice

SpecFormatter == InitFormatter /\ [][NextFormatter]_vars

\* ------------------------------------------------------------ the event sink
\* what an operation of the event sink leaves alone
EventsFrame == UNCHANGED <<dev, racers, builder, form, blob0json, mounted, secrets, dataDir,
                           envs, instances, singleton, returned, pc, self, loc, trace,
                           events, calls, binds, tmpfiles, fs>>

\* the operations of Events that record an event, with the type they record;
\* those of DefaultDataOps build their data with _get_default_data_set, and
\* add_update_event reads the sizes of /internal, before _add_event is called
EventOps ==
    [add_info_event |-> "INFO", add_exception_event |-> "ERROR",
     add_booted_event |-> "BOOT", add_shutdown_event |-> "SHUTDOWN",
     add_windows_start_event |-> "WINDOWS-START",
     add_windows_stop_event |-> "WINDOWS-STOP", add_update_event |-> "UPDATE"]
DefaultDataOps == {"add_booted_event", "add_shutdown_event",
                   "add_windows_start_event", "add_windows_stop_event"}

\* Events._ensure_device_id on the sink s: the attestation file is read when
\* no device id is known yet, which raises when /internal is not mounted
ensure_device_id(s) ==
    IF s.device_id # "" THEN [raised |-> FALSE, s |-> s]
    ELSE IF s.internal = "unmounted" THEN [raised |-> TRUE, s |-> s]
    ELSE [raised |-> FALSE, s |-> [s EXCEPT !.device_id = "device-1"]]

\* c.execute(INSERT ...) of the events of rows, in order
Inserted(s, rows) ==
    [s EXCEPT !.db = @ \o rows,
              !.inserted = @ \o [k \in 1..Len(rows) |-> rows[k].n]]

\* Events._open_db on the sink s: TRUE with a connection; else, when
\* /internal/resources/config.json exists, the connection is made, the events
\* of the backlog inserted in order and the backlog emptied; else FALSE.
\* connect tells whether sqlite3.connect went through,
\* failAt is the index of the backlog whose insert raises (0: none)
open_db(s, connect, failAt) ==
    IF s.conn THEN [open |-> TRUE, raised |-> FALSE, s |-> s]
    ELSE IF s.internal = "ready"
    THEN IF ~connect THEN [open |-> FALSE, raised |-> TRUE, s |-> s]
         ELSE IF failAt # 0
         THEN [open |-> FALSE, raised |-> TRUE,
               s |-> Inserted([s EXCEPT !.conn = TRUE],
                              SubSeq(s.backlog, 1, failAt - 1))]
         ELSE [open |-> TRUE, raised |-> FALSE,
               s |-> [Inserted([s EXCEPT !.conn = TRUE], s.backlog)
                         EXCEPT !.backlog = <<>>]]
    ELSE [open |-> FALSE, raised |-> FALSE, s |-> s]

\* SELECT ... ORDER BY ts ASC: insertion of a row by its ts, after its equals
RECURSIVE InsertByTs(_, _)
InsertByTs(sorted, row) ==
    IF sorted = <<>> THEN <<row>>
    ELSE IF row.ts < Head(sorted).ts THEN <<row>> \o sorted
    ELSE <<Head(sorted)>> \o InsertByTs(Tail(sorted), row)
RECURSIVE OrderByTs(_)
OrderByTs(rows) ==
    IF rows = <<>> THEN <<>>
    ELSE InsertByTs(OrderByTs(SubSeq(rows, 1, Len(rows) - 1)), rows[Len(rows)])

\* DELETE FROM events WHERE ts=:ts AND type=:type
DeleteRows(db, ts, type) == SelectSeq(db, LAMBDA r : ~(r.ts = ts /\ r.type = type))

\* the loop of send_events over the rows selected, from the i-th: a delivery
\* answers 200 (the rows of that ts and type are deleted), another status, or
\* raises, which ends the loop
RECURSIVE SendFrom(_, _, _, _)
SendFrom(s, rows, answers, i) ==
    IF i > Len(rows) THEN s
    ELSE IF answers[i] = "raised" THEN s
    ELSE IF answers[i] = "200"
    THEN SendFrom([s EXCEPT !.db = DeleteRows(@, rows[i].ts, rows[i].type),
                            !.delivered = @ \cup {rows[i].n}],
                  rows, answers, i + 1)
    ELSE SendFrom(s, rows, answers, i + 1)

Answers == {"200", "500", "raised"}

\* Events.send_events on the sink s; answers[i] is what the i-th delivery gives.
\* Every exception is swallowed
send_events(s, connect, failAt, answers) ==
    LET o == open_db(s, connect, failAt)
    IN  IF o.open THEN SendFrom(o.s, OrderByTs(o.s.db), answers, 1) ELSE o.s

\* Events._add_event on the sink s for the event e: device id, _open_db, then
\* the insert and send_events, or the backlog; an exception on the way is
\* written to syslog and the event is not recorded. insert tells whether the
\* insert of e went through
add_event(s, e, connect, failAt, insert, answers) ==
    LET d == ensure_device_id(s)
        o == open_db(d.s, connect, failAt)
    IN  IF d.raised THEN [s |-> d.s, logged |-> TRUE]
        ELSE IF o.raised THEN [s |-> o.s, logged |-> TRUE]
        ELSE IF ~o.open
        THEN [s |-> [o.s EXCEPT !.backlog = Append(@, e), !.backlogged = Append(@, e.n)],
              logged |-> FALSE]
        ELSE IF ~insert THEN [s |-> o.s, logged |-> TRUE]
        ELSE [s |-> send_events(Inserted(o.s, <<e>>), TRUE, 0, answers),
              logged |-> FALSE]

\* what _open_db can meet on the sink s: a failure of the connection and of
\* the insert of an event of the backlog only where it connects
Connects(s) == IF ~s.conn /\ s.internal = "ready" THEN BOOLEAN ELSE {TRUE}
FailsAt(s) == IF ~s.conn /\ s.internal = "ready" THEN 0..Len(s.backlog) ELSE {0}

\* the deliveries of a send_events that finds rows rows
AnswersFor(rows) == [1..Len(rows) -> Answers]

\* one of the add_*_event operations of Events, called by a program of the
\* live system; the clock may have moved to the next second since the last one
AddEvent(op) ==
    /\ sink.n < MaxEvents
    /\ \E tick, insert \in BOOLEAN, connect \in Connects(sink), failAt \in FailsAt(sink) :
         LET now == IF tick THEN sink.now + 1 ELSE sink.now
             e == [n |-> sink.n + 1, ts |-> now, type |-> EventOps[op]]
             s0 == [sink EXCEPT !.n = @ + 1, !.now = now]
             d == ensure_device_id(s0)
         IN  /\ libcall' = [name |-> op, event |-> e]
             /\ IF op \in DefaultDataOps /\ d.raised
                THEN /\ sink' = s0
                     /\ result' = Raised(Exc("Exception", "attestation.json"))
                     /\ UNCHANGED syslogged
                ELSE \E answers \in AnswersFor(
                            add_event(IF op \in DefaultDataOps THEN d.s ELSE s0,
                                      e, connect, failAt, FALSE, <<>>).s.db \o <<e>>) :
                       LET r == add_event(IF op \in DefaultDataOps THEN d.s ELSE s0,
                                          e, connect, failAt, insert, answers)
                       IN  /\ sink' = r.s
                           /\ result' = Returned(<<>>)
                           /\ syslogged' =
                                 IF r.logged
                                 THEN {Inner("Failed to record event", "events", FALSE)}
                                 ELSE {}
    /\ EventsFrame

\* Events.send_events called by itself
SendEvents ==
    /\ \E connect \in Connects(sink), failAt \in FailsAt(sink) :
         \E answers \in AnswersFor(open_db(sink, connect, 0).s.db) :
            sink' = send_events(sink, connect, failAt, answers)
    /\ sink' # sink
    /\ libcall' = [name |-> "send_events"]
    /\ result' = Returned(<<>>)
    /\ UNCHANGED syslogged
    /\ EventsFrame

\* /internal gets mounted (unlock), and resources/config.json is put there
InternalChanges ==
    /\ \/ sink.internal = "unmounted" /\ sink' = [sink EXCEPT !.internal = "no-config"]
       \/ sink.internal = "unmounted" /\ sink' = [sink EXCEPT !.internal = "ready"]
       \/ sink.internal = "no-config" /\ sink' = [sink EXCEPT !.internal = "ready"]
    /\ UNCHANGED <<libcall, result, syslogged>>
    /\ EventsFrame

InitEvents ==
    /\ dev = RefDevice
    /\ blob0json = <<SlotHardened>>
    /\ mounted = {}
    /\ secrets = {}
    /\ dataDir = FALSE
    /\ envs = [e \in EnvIds |-> NoEnv]
    /\ instances = <<>>
    /\ singleton = 0
    /\ returned = 0
    /\ pc = "idle"
    /\ self = 0
    /\ loc = NoLoc
    /\ trace = <<>>
    /\ result = NoResult
    /\ events = {}
    /\ syslogged = {}
    /\ calls = 0
    /\ binds = {}
    /\ tmpfiles = {}
    /\ fs = RootFs
    /\ libcall = NoOp
    /\ builder = NoBuilder
    /\ form = NoForm
    /\ sink = NoSink
    /\ racers = NoRacers

NextEvents ==
    \/ \E op \in DOMAIN EventOps : AddEvent(op)
    \/ SendEvents
    \/ InternalChanges

SpecEvents == InitEvents /\ [][NextEvents]_vars

\* --------------------------------------------------------- check_integrity
\* what check_integrity and the caller's umount leave alone
IntegrityFrame == UNCHANGED <<dev, sink, racers, builder, form, blob0json, secrets, dataDir, envs,
                              instances, singleton, returned, pc, self, loc, trace,
                              events, syslogged, calls, binds, tmpfiles, fs>>

\* the blob0 a caller can hand to check_integrity
Blob0s == {Blob0Value, <<"blob0.x">>}

\* _unblock_with_blob0(dummy_mountpoint, blob0) on the device d with the
\* partitions of m mounted: the exception raised, if any, and the partitions
\* mounted when it is left. okLive and okFp tell whether the mounts of the
\* live partition and of compute_integrity_fingerprint go through
unblock_with_blob0(d, m, blob0, okLive, okFp, rnd) ==
    LET f1 == d.dummy[F_blob1]
        d1 == Decrypt(blob0, f1.body)
        f2 == d.dummy[F_chunks]
        d2 == Decrypt(d1.plain, f2.body)
        v == verify_files_chunks(d.live, d2.plain)
        m3 == DevMount(m, partid_live)
        r == compute_integrity_fingerprint(d, d1.plain, v.hash0, rnd)
        m4 == DevMount(DevMount(m3, partid_dummy), partid_efi)
        f5 == d.dummy[F_intpass]
        failed(msg, mm) == [result |-> Raised(Exc("Exception", msg)), mounted |-> mm]
    IN  IF ~(f1.exists /\ d1.ok)
        THEN failed("Could not load 'blob1.priv.enc' or decrypt blob1 from blob0", m)
        ELSE IF ~(f2.exists /\ d2.ok)
        THEN failed("Could not load 'chunks.enc' or decrypt chuks from blob1", m)
        ELSE IF ~okLive
        THEN failed("Could not verify files in the live partition", m)
        ELSE IF ~v.ok
        THEN failed("Could not verify files in the live partition", m3)
        ELSE IF ~okFp
        THEN failed("Could not compute the integrity fingerprint", m3)
        ELSE IF ~f5.exists
        THEN failed("Could not load the 'internal-pass.enc' file", m4)
        ELSE IF ~Decrypt(r.hash, f5.body).ok
        THEN failed("Could not decrypt the 'internal-pass.enc' file from the integrity hash", m4)
        ELSE [result |-> Returned(<<>>), mounted |-> m4]

\* check_integrity(blob0): dmp=self._dev.mount(partid_dummy);
\* self._unblock_with_blob0(dmp, blob0)
CheckIntegrity(blob0) ==
    /\ \E okMount, okLive, okFp \in BOOLEAN, rnd \in Nonces :
         LET u == unblock_with_blob0(dev, DevMount(mounted, partid_dummy), blob0,
                                     okLive, okFp, rnd)
         IN  IF okMount
             THEN /\ mounted' = u.mounted
                  /\ result' = u.result
             ELSE /\ result' = Raised(Exc("Exception", "mount-failure"))
                  /\ UNCHANGED mounted
    /\ libcall' = [name |-> "check_integrity", before |-> mounted]
    /\ IntegrityFrame

\* the caller's self._dev.umount(part)
CallerUmount(part) ==
    /\ part \in mounted
    /\ mounted' = DevUmount(mounted, part)
    /\ libcall' = [name |-> "umount"]
    /\ result' = NoResult
    /\ IntegrityFrame

NextIntegrity ==
    \/ \E blob0 \in Blob0s : CheckIntegrity(blob0)
    \/ \E part \in {partid_dummy, partid_live, partid_efi} : CallerUmount(part)

SpecIntegrity == Init /\ [][NextIntegrity]_vars

\* ------------------------------------------------------------------ claims
Ops(t) == {t[i] : i \in 1..Len(t)}

\* position of the first occurrence of op in t (0: none)
Pos(t, op) ==
    IF op \in Ops(t) THEN CHOOSE i \in 1..Len(t) : t[i] = op /\ \A j \in 1..(i - 1) : t[j] # op
    ELSE 0

\* op a occurs in t, and before any occurrence of op b
Before(t, a, b) == Pos(t, a) # 0 /\ (Pos(t, b) # 0 => Pos(t, a) < Pos(t, b))

Finished == pc = "idle" /\ result.status # "none"
Authenticated == loc.blob0 # <<>>
Decrypts(user_password) ==
    \E k \in 1..Len(blob0json) : SlotBlob0(blob0json[k], user_password).ok

\* C1: set_partition_secret on internal (and so the mount of /internal) happens
\* only after device.verify succeeded, a slot of blob0.json decrypted under the
\* supplied password and internal-pass.enc decrypted under the fingerprint
\* computed in the same execution.
C1_InternalAfterChecks ==
    (<<"secret", partid_internal>> \in Ops(trace) \/ <<"mount", partid_internal>> \in Ops(trace))
    => /\ Before(trace, <<"verify">>, <<"secret", partid_internal>>)
       /\ Before(trace, <<"secret", partid_internal>>, <<"mount", partid_internal>>)
       /\ loc.verified /\ DevVerify(dev)
       /\ Decrypts(loc.user_password)
       /\ loc.blob0 = SlotBlob0(blob0json[FirstSlot(blob0json, loc.user_password, 1)],
                                loc.user_password).plain
       /\ \E rnd \in Nonces :
              loc.ifp = compute_integrity_fingerprint(dev, loc.blob1, loc.hash0, rnd).hash
       /\ Decrypt(loc.ifp, dev.dummy[F_intpass].body).ok
       /\ loc.int_password = Decrypt(loc.ifp, dev.dummy[F_intpass].body).plain

C1_Witness == pc = "mount_internal" /\ <<"secret", partid_internal>> \in Ops(trace)

\* C2: in a successful unlock dummy is mounted before live, the internal secret
\* is set and internal mounted before the data secret is set, and data is
\* mounted before PRIVDATA extraction and before the /data binds.
C2_ProgramOrder ==
    (Finished /\ result.status = "returned")
    => /\ Before(trace, <<"mount", partid_dummy>>, <<"mount", partid_live>>)
       /\ Pos(trace, <<"mount", partid_live>>) # 0
       /\ Before(trace, <<"secret", partid_internal>>, <<"mount", partid_internal>>)
       /\ Before(trace, <<"mount", partid_internal>>, <<"secret", partid_data>>)
       /\ Pos(trace, <<"secret", partid_data>>) # 0
       /\ Before(trace, <<"secret", partid_data>>, <<"mount", partid_data>>)
       /\ Before(trace, <<"mount", partid_data>>, <<"privdata">>)
       /\ Before(trace, <<"mount", partid_data>>, <<"bind">>)
       /\ Pos(trace, <<"privdata">>) # 0 /\ Pos(trace, <<"bind">>) # 0

C2_Witness == Finished /\ result.status = "returned" /\ <<"bind">> \in Ops(trace)

\* C3 (as stated): on a device with one non-ignored input of the integrity
\* chain changed, unlock with a valid password fails with
\* DeviceIntegrityException without opening internal.
C3_TamperIsIntegrityFailure ==
    (/\ Finished
     /\ \E t \in IntegrityTampers : dev = Tampered(RefDevice, t)
     /\ Decrypts(loc.user_password)
     /\ result.msg # "mount-failure")
    => /\ result = Raised(DeviceIntegrityException)
       /\ <<"secret", partid_internal>> \notin Ops(trace)

\* C4: when the password decrypts no slot of blob0.json, unlock fails with
\* InvalidCredentialException, nothing but dummy was mounted or given a secret,
\* and dummy is unmounted when unlock returns.
C4_InvalidCredential ==
    (/\ Finished
     /\ loc.verified
     /\ dev.dummy[F_blob0].exists
     /\ ~Decrypts(loc.user_password))
    => /\ result = Raised(InvalidCredentialException)
       /\ \A op \in Ops(trace) :
              op[1] \in {"mount", "secret", "umount"} => op[2] = partid_dummy
       /\ partid_dummy \notin mounted

C4_Witness ==
    Finished /\ result = Raised(InvalidCredentialException) /\ ~Decrypts(loc.user_password)

\* C5 (as stated): when device.verify fails, unlock ends with
\* DeviceIntegrityException, dummy being unmounted first.
C5_VerifyFailureIsIntegrity ==
    (Finished /\ <<"verify">> \in Ops(trace) /\ ~loc.verified)
    => /\ result.kind = "DeviceIntegrityException"
       /\ partid_dummy \notin mounted

EnvCauses == {"mount-failure", "device-busy", "fs-op-failure"}
InTryBlock == Authenticated /\ <<"mount", partid_data>> \notin Ops(trace)

C7_UniformIntegrityError ==
    (Finished /\ result.status = "raised" /\ InTryBlock)
    => result = Raised(DeviceIntegrityException)

C7_Witness ==
    /\ Finished /\ InTryBlock
    /\ result = Raised(DeviceIntegrityException)
    /\ \E inner \in syslogged : inner.cause = "decrypt" /\ inner.log

Opened == <<"mount", partid_data>> \in Ops(trace)

\* C8: once an unlock has mounted internal and data the environment is
\* unlocked, it stays so, and every later call of unlock raises 'Device already
\* unlocked' before any mount, verify, decrypt or partition-secret operation.
C8_OneShot ==
    /\ [](Opened /\ pc \notin {"update_status"} => envs[instances[self].live_env].unlocked)
    /\ [][\A e \in EnvIds : envs[e].unlocked => envs'[e].unlocked]_vars
    /\ [][(calls' # calls /\ envs[instances[self'].live_env].unlocked)
          => /\ result' = Raised(AlreadyUnlocked)
             /\ pc' = "idle"
             /\ trace' = <<>>
             /\ mounted' = mounted /\ secrets' = secrets]_vars

C8_Witness ==
    /\ Finished /\ result = Raised(AlreadyUnlocked)
    /\ {partid_internal, partid_data} \subseteq mounted

\* C9 (as stated): at most one BootProcessWKS exists per process; once one has
\* been created every construction or get_instance call returns it.
C9_Singleton ==
    /\ Len(instances) <= 1
    /\ Len(instances) = 1 => returned = 1

PostUnlock == <<"chpasswd">> \in Ops(trace)
InPostTry == <<"privdata">> \in Ops(trace)

ShutdownDone == libcall.name = "prepare_shutdown" /\ pc = "idle"

\* C11 (as stated): after prepare_shutdown returns, an unmount has been issued
\* for every destination of the data map and for data, and none for internal,
\* also when an unbind fails.
C11_ShutdownReleasesAll ==
    (ShutdownDone /\ fs.map_file)
    => /\ \A j \in 1..Len(DataMap) : <<"unbind", DataMap[j]>> \in Ops(trace)
       /\ <<"umount", partid_data>> \in Ops(trace)
       /\ <<"umount", partid_internal>> \notin Ops(trace)

\* C12: prepare_shutdown never raises: a failed unbind or a failed unmount of
\* data is written to syslog and the caller gets a normal return.
C12_ShutdownNeverRaises ==
    ShutdownDone => result = Returned(<<>>)

C12_Witness ==
    /\ ShutdownDone
    /\ \E inner \in syslogged : inner.msg = "Could not unbind"
    /\ result = Returned(<<>>)

\* an unlock that mounted dummy and raised before the post-unlock steps
ErrorPath == Finished /\ result.status = "raised" /\ trace # <<>> /\ ~PostUnlock

\* C13 (as stated): on every error path of unlock the dummy partition mounted
\* at its start is unmounted when the error reaches the caller, and nothing
\* but internal is left mounted.
C13_DummyReleasedOnError ==
    ErrorPath => /\ partid_dummy \notin mounted
                 /\ mounted \subseteq {partid_internal}

ExtractDone ==
    libcall.name \in {"extract_privdata", "extract_live_config_scripts"} /\ pc = "idle"

\* C14 (as stated): when extract_privdata or extract_live_config_scripts exits,
\* by return or by raise, no temporary file holding a decrypted archive or a
\* component's intermediate tar exists.
C14_NoTemporaryFileLeft ==
    ExtractDone => tmpfiles = {}

\* the users management call that has just been made
Called(name) == libcall.name = name /\ pc = "idle"

\* C15: a blob0.json with at least one slot keeps at least one slot through
\* every declare_user, delete_user, change_user_password and
\* reset_user_password; delete_user on a store of exactly one slot fails and
\* leaves blob0.json as it was.
C15_NeverEmptied ==
    [][/\ Len(blob0json) >= 1 => Len(blob0json') >= 1
       /\ (libcall'.name = "delete_user" /\ Len(blob0json) = 1)
          => (result'.status = "raised" /\ blob0json' = blob0json)]_vars

C15_Witness ==
    /\ Called("delete_user")
    /\ libcall.slots = 1
    /\ libcall.cn = blob0json[1].cn
    /\ result.status = "raised"
    /\ Len(blob0json) = 1

\* C16: declare_user on a store that has a password-mode slot of that cn
\* rewrites the enc-blob and the salt of that slot and keeps its uuid, its cn and
\* the number of slots; otherwise it adds one slot under a uuid no slot had and
\* changes no slot that was there.
C16_DeclareOverwritesOrAppends ==
    [][libcall'.name = "declare_user"
       => LET k == FirstNamed(blob0json, libcall'.cn, 1)
              n == Len(blob0json)
          IN  IF k # 0
              THEN /\ Len(blob0json') = n
                   /\ \A j \in 1..n : j # k => blob0json'[j] = blob0json[j]
                   /\ blob0json'[k].uuid = blob0json[k].uuid
                   /\ blob0json'[k].cn = blob0json[k].cn
                   /\ blob0json'[k].hasSalt
                   /\ blob0json'[k].encblob =
                          Encrypt("enc-blob",
                                  harden_password_for_blob0(libcall'.password,
                                                            blob0json'[k].salt),
                                  Blob0Value)
              ELSE /\ Len(blob0json') = n + 1
                   /\ \A j \in 1..n : blob0json'[j] = blob0json[j]
                   /\ blob0json'[n + 1].uuid \notin UuidsOf(blob0json)
                   /\ blob0json'[n + 1].cn = libcall'.cn]_vars

C16_Witness ==
    /\ Called("declare_user")
    /\ libcall.k # 0
    /\ libcall.slots = 2
    /\ Len(blob0json) = 2
    /\ blob0json[libcall.k].cn = libcall.cn
    /\ SlotBlob0(blob0json[libcall.k], libcall.password).ok

Count(seq, x) == Cardinality({i \in 1..Len(seq) : seq[i] = x})

\* C17: get_users returns the cn of every slot, one entry per slot, in
\* ascending order, and raises when blob0.json does not exist; right after a
\* declare_user the list has the declared cn.
C17_GetUsersSorted ==
    /\ Called("get_users")
       => IF blob0json = <<>>
          THEN result.status = "raised"
          ELSE /\ result.status = "returned"
               /\ Len(result.value) = Len(blob0json)
               /\ \A k \in 1..Len(blob0json) :
                    Count(result.value, blob0json[k].cn)
                      = Count([j \in 1..Len(blob0json) |-> blob0json[j].cn], blob0json[k].cn)
               /\ \A i, j \in 1..Len(result.value) :
                    i < j => Rank(result.value[i]) <= Rank(result.value[j])
    /\ (Called("declare_user") /\ result.status = "returned")
       => Count(get_users(blob0json).value, libcall.cn) >= 1

C17_Witness ==
    /\ Called("get_users")
    /\ Len(blob0json) = 2
    /\ blob0json[1].cn = "Bob"
    /\ result.value = <<"Alice", "Bob">>

\* C18: a change_user_password that returns keeps the uuid and the cn of every
\* slot, changes nothing but the enc-blob and the salt of the slot that
\* decrypted under the current password, and leaves every other slot as it was.
C18_ChangeKeepsIdentity ==
    [][(libcall'.name = "change_user_password" /\ result'.status = "returned")
       => LET k == FirstDecrypting(blob0json, libcall'.current, 1)
          IN  /\ Len(blob0json') = Len(blob0json)
              /\ \A j \in 1..Len(blob0json) :
                   /\ blob0json'[j].uuid = blob0json[j].uuid
                   /\ blob0json'[j].cn = blob0json[j].cn
                   /\ blob0json'[j].mode = blob0json[j].mode
                   /\ j # k => blob0json'[j] = blob0json[j]]_vars

C18_Witness ==
    /\ Called("change_user_password")
    /\ result.status = "returned"
    /\ libcall.current # libcall.password
    /\ libcall.k = 2
    /\ Len(blob0json) = 2
    /\ SlotBlob0(blob0json[2], libcall.password).ok
    /\ ~SlotBlob0(blob0json[1], libcall.current).ok

\* C19 (as stated): after a change_user_password(old, new) that returned, with
\* new other than old, the slot search of unlock succeeds with new and fails
\* with old.
C19_OldPasswordRevoked ==
    (/\ Called("change_user_password")
     /\ result.status = "returned"
     /\ libcall.current # libcall.password)
    => /\ FirstSlot(blob0json, libcall.password, 1) # 0
       /\ FirstSlot(blob0json, libcall.current, 1) = 0

\* C20 (as stated): when no slot of blob0.json decrypts under the current
\* password, change_user_password raises 'Invalid password' and leaves
\* blob0.json as it was, whatever the new password is.
C20_ChangeRejectsWrongPassword ==
    [][(/\ libcall'.name = "change_user_password"
        /\ blob0json # <<>>
        /\ FirstDecrypting(blob0json, libcall'.current, 1) = 0)
       => /\ result'.status = "raised"
          /\ result'.msg = "Invalid password"
          /\ blob0json' = blob0json]_vars

C22_DeleteRemovesConfig ==
    [][(libcall'.name = "delete_user" /\ result'.status = "returned")
       => /\ blob0json' = Undeclare(blob0json, libcall'.cn)
          /\ libcall'.internal_mp
             => (UuidsOf(blob0json) \ UuidsOf(blob0json')) \cap fs'.user_config = {}]_vars

\* C22 (amended): a delete_user that returns removes every slot of that cn and
\* no other slot; with internal_mp given the user-config directory of every
\* slot removed is gone after the call unless its removal failed, which is
\* written to syslog and does not fail the call.
C22_DeleteRemovesConfigOrLogs ==
    [][(libcall'.name = "delete_user" /\ result'.status = "returned")
       => /\ blob0json' = Undeclare(blob0json, libcall'.cn)
          /\ \A j \in 1..Len(blob0json') : blob0json'[j].cn # libcall'.cn
          /\ libcall'.internal_mp
             => \/ (UuidsOf(blob0json) \ UuidsOf(blob0json')) \cap fs'.user_config = {}
                \/ \E w \in syslogged' : w.cause = "rmtree"]_vars

C22_Witness ==
    /\ Called("delete_user")
    /\ result.status = "returned"
    /\ libcall.internal_mp
    /\ libcall.slots = 2
    /\ Len(blob0json) = 1
    /\ syslogged = {}
    /\ Cardinality(fs.user_config) = 1

\* _unlock_blob0 has gone through the slots of a blob0.json that is there
Searched ==
    /\ pc \notin {"verify", "unlock_blob0"}
    /\ Len(trace) >= 3
    /\ trace[3] = <<"mount", partid_dummy>>
    /\ dev.dummy[F_blob0].exists

\* C23 (as stated): when the password decrypts a slot of blob0.json the slot
\* search succeeds with the uuid, the cn and the blob0 of the first such slot,
\* /run/INSECA/user_uuid holds that uuid, and no slot that decrypts is passed
\* over.
C23_FirstDecryptingSlotWins ==
    (Searched /\ Decrypts(loc.user_password))
    => LET k == FirstDecrypting(blob0json, loc.user_password, 1)
       IN  /\ result # Raised(InvalidCredentialException)
           /\ loc.blob0 = SlotBlob0(blob0json[k], loc.user_password).plain
           /\ instances[self].user_uuid = blob0json[k].uuid
           /\ instances[self].cn = blob0json[k].cn
           /\ fs.user_uuid = blob0json[k].uuid

\* C24: compute_integrity_fingerprint folds the inter-partition gap, the blob1
\* private key, the partition table, the contents of dummy, the contents of
\* EFI and the live chunk hash in that order; its log has one entry per step in
\* the same order, each with the five character prefix of the running hash and
\* not the hash; the fingerprint is the running hash after the last step.
C24_FingerprintOrder ==
    loc.ifp # <<>>
    => \E rnd \in Nonces :
         LET dh == compute_directory_hash(dev.dummy, DummyFiles,
                       [r \in DOMAIN dev.dummy |-> dummy_ignore(dev.dummy, r)], rnd)
             eh == compute_directory_hash(dev.efi, EfiFiles,
                       [r \in DOMAIN dev.efi |-> efi_ignore(dev.efi, r)], rnd)
             r0 == <<dev.gap>>
             r1 == r0 \o loc.blob1
             r2 == r1 \o <<dev.table>>
             r3 == r2 \o dh
             r4 == r3 \o eh
             r5 == r4 \o loc.hash0
             running == <<r0, r1, r2, r3, r4, r5>>
             steps == <<"inter", "blob1", "mbr", "dummy", "efi-data", "live">>
         IN  /\ loc.ifp = r5
             /\ Len(loc.log) >= 6
             /\ \A i \in 1..6 : /\ loc.log[i].step = steps[i]
                                /\ loc.log[i].prefix = Prefix5(running[i])
                                /\ loc.log[i].prefix # running[i]

C24_Witness ==
    /\ pc = "load_intpass"
    /\ loc.ifp = RefFingerprint
    /\ Len(loc.log) = 7

\* C25: for boot/grub/bootparams.cfg _efi_ignore returns True only when
\* bootparams0.cfg and bootparams1.cfg both exist and the contents equal those
\* of one of them; when one is missing or the contents match neither it
\* returns a generated value and the chain does not succeed; for every other
\* relative path it returns False.
C25_EfiIgnore ==
    LET f == dev.efi
        both == f[E_bootparams0].exists /\ f[E_bootparams1].exists
        same == \/ f[E_bootparams].body = f[E_bootparams0].body
                \/ f[E_bootparams].body = f[E_bootparams1].body
    IN  /\ \A rel \in DOMAIN f :
               efi_ignore(f, rel) =
                   IF rel # E_bootparams THEN "False"
                   ELSE IF both /\ same THEN "True" ELSE "Random"
        /\ (loc.ifp # <<>> /\ ~(both /\ same))
           => /\ loc.ifp # RefFingerprint
              /\ <<"secret", partid_internal>> \notin Ops(trace)

C25_Witness ==
    /\ Finished
    /\ loc.ifp # <<>>
    /\ ~dev.efi[E_bootparams1].exists
    /\ result = Raised(DeviceIntegrityException)

\* C26: when the components were processed and <fs>/privdata (or
\* <fs>/live-config) is not empty while no public key was given,
\* copy_resources fails and there is no privdata.tar.enc (live-config.tar.enc);
\* when the directory is absent or empty its sealing is skipped without an
\* error, with or without a key.
C26_SealingNeedsKey ==
    (Called("copy_resources") /\ libcall.prepared)
    => LET nokey == builder.privdata_pubkey = NoPubkey
           some(d) == d.exists /\ Len(d.listing) > 0
       IN  /\ (some(libcall.privdata) /\ nokey)
              => /\ result.status = "raised"
                 /\ ~builder.privdata_enc.exists
           /\ (some(libcall.live_config) /\ nokey)
              => /\ result.status = "raised"
                 /\ ~builder.live_config_enc.exists
           /\ ~some(libcall.privdata)
              => /\ result.msg # NoPrivdataKey
                 /\ ~builder.privdata_enc.exists
                 /\ ~builder.privdata_tar.exists
           /\ ~some(libcall.live_config)
              => /\ result.msg # NoLiveConfigKey
                 /\ ~builder.live_config_enc.exists
                 /\ ~builder.live_config_tar.exists
           /\ (~some(libcall.privdata) /\ ~some(libcall.live_config))
              => result = Returned(<<>>)

C26_Witness ==
    /\ Called("copy_resources") /\ libcall.prepared
    /\ builder.privdata_pubkey = NoPubkey
    /\ libcall.privdata = Dir(<<>>)
    /\ Len(libcall.live_config.listing) = 2
    /\ result = Raised(Exc("Exception", NoLiveConfigKey))

\* C27: when the interrupt callback ran while the container of the build was
\* running, the docker client is killed, post-processing of the ISO never runs
\* and no image file is made, and build() ends with the container removed,
\* "Interrupted" as last record of the build data and the "Build interrupted"
\* exception.
C27_InterruptedBuild ==
    /\ builder.build_interrupted
       => /\ builder.child = "killed"
          /\ ~builder.customized
          /\ ~builder.image_file
    /\ (Called("build") /\ builder.build_interrupted)
       => /\ builder.container = "removed"
          /\ builder.build_data[Len(builder.build_data)] = "Interrupted"
          /\ result = Raised(Exc("Exception", "Build interrupted"))

C27_Witness ==
    /\ Called("build")
    /\ builder.build_interrupted
    /\ builder.built_iso
    /\ result = Raised(Exc("Exception", "Build interrupted"))

ComponentPos(c) == CHOOSE k \in DOMAIN Components : Components[k] = c

\* C28 (as stated): the entries of privdata.tar, as encrypted into
\* privdata.tar.enc, are in ascending order of their names whatever the order
\* of the directory listing, so that two runs over the same privdata make the
\* same archive.
C28_TarEntriesSorted ==
    (/\ Called("copy_resources")
     /\ result.status = "returned"
     /\ builder.privdata_enc.exists)
    => LET entries == builder.privdata_enc.body.plain
       IN  \A i, j \in DOMAIN entries :
               i < j => ComponentPos(entries[i]) < ComponentPos(entries[j])

\* C29 (as stated): every parameter named in the overrides of the format
\* configuration is, in what get_format_valued_params returns and in the
\* params file of the dev-format job, mapped to the value of the override.
C29_OverridesTakePrecedence ==
    /\ (form.chosen /\ result.status = "returned")
       => \A p \in DOMAIN form.fconf.overrides :
              /\ p \in DOMAIN result.value
              /\ result.value[p] = form.fconf.overrides[p]
    /\ Called("_format_device")
       => \A p \in DOMAIN form.fconf.overrides :
              /\ p \in DOMAIN libcall.params_file
              /\ libcall.params_file[p] = form.fconf.overrides[p]

\* C30 (as stated): what get_format_valued_params returns, and so the params
\* file of every dev-format job, has password-user, fs-data and enctype-data,
\* each with a value that is not empty, with or without overrides.
C30_UserParamsPresent ==
    /\ (form.chosen /\ result.status = "returned")
       => \A k \in DOMAIN UserParams :
              /\ UserParams[k] \in DOMAIN result.value
              /\ result.value[UserParams[k]] # ""
    /\ Called("_format_device")
       => \A k \in DOMAIN UserParams :
              /\ UserParams[k] \in DOMAIN libcall.params_file
              /\ libcall.params_file[UserParams[k]] # ""

\* C33: every slot declare_user, change_user_password or reset_user_password
\* writes has mode "password", a generated salt and its enc-blob encrypted
\* under the password hardened with that salt; a slot without salt that
\* authenticated in change_user_password comes out with a salt.
C33_WrittenSlotsSalted ==
    [][(/\ libcall'.name \in {"declare_user", "change_user_password",
                               "reset_user_password"}
        /\ result'.status = "returned")
       => \A i \in 1..Len(blob0json') :
              (i > Len(blob0json) \/ blob0json'[i] # blob0json[i])
              => /\ blob0json'[i].mode = "password"
                 /\ blob0json'[i].hasSalt
                 /\ blob0json'[i].salt \in Salts
                 /\ blob0json'[i].encblob.key =
                        harden_password_for_blob0(libcall'.password, blob0json'[i].salt)]_vars

C33_Witness ==
    /\ Called("change_user_password")
    /\ result.status = "returned"
    /\ libcall.k # 0
    /\ ~libcall.salted
    /\ libcall.current # libcall.password
    /\ blob0json[libcall.k].hasSalt

\* C34: no two slots of blob0.json have the same cn, whatever calls of
\* declare_user, delete_user, change_user_password and reset_user_password
\* were made; the slot change_user_password stopped at is the first of its cn.
C34_UniqueCn ==
    /\ \A i, j \in 1..Len(blob0json) : i # j => blob0json[i].cn # blob0json[j].cn
    /\ (Called("change_user_password") /\ libcall.k # 0)
       => FirstNamed(blob0json, blob0json[libcall.k].cn, 1) = libcall.k

C34_Witness ==
    /\ Called("declare_user")
    /\ libcall.slots = 2
    /\ libcall.k = 2
    /\ Len(blob0json) = 2

\* C35 (as stated): in a WKS, SERVER or ADMIN environment, whenever unlock has
\* returned or raised, Environ.unlocked is true exactly when /internal is
\* mounted.
C35_UnlockedIffInternalMounted ==
    (Finished /\ self # 0 /\ dev.build_type \in {"WKS", "SERVER", "ADMIN"})
    => (envs[instances[self].live_env].unlocked <=> partid_internal \in mounted)

\* C37 (as stated): a build() that recorded "Started" in the build data file
\* has recorded exactly one of "Finished", "Failed" and "Interrupted" when it
\* returns or raises.
C37_OneTerminalRecord ==
    (Called("build") /\ Count(builder.build_data, "Started") = 1)
    => Count(builder.build_data, "Finished") + Count(builder.build_data, "Failed")
       + Count(builder.build_data, "Interrupted") = 1

\* C40 (as stated): whenever the Format button is sensitive a format
\* configuration is selected, a device is selected and _final_params is the
\* parameter set computed from the selected configuration.
C40_SensitiveMeansCurrent ==
    form.format_button
    => /\ form.current # NoFconf
       /\ form.selected
       /\ form.final
       /\ form.chosen /\ form.fconf = form.current
       /\ get_format_valued_params(form.current, form.links, form.values)
             = Returned(form.final_params)

\* C31 (as stated): no operation of the event sink raises to its caller: an
\* add_*_event or a send_events that has run has returned, whatever failed in
\* reading the device id, opening or writing the database, or sending.
C31_EventSinkNeverRaises ==
    (libcall.name \in (DOMAIN EventOps) \cup {"send_events"})
    => result.status # "raised"

\* C38 (as stated): an event recorded while the database cannot be opened is
\* in the backlog; once the database is open every event that went through the
\* backlog has been inserted exactly once, and the inserts follow the order of
\* arrival.
C38_BacklogFlushedInOrder ==
    /\ (/\ libcall.name \in DOMAIN EventOps
        /\ result.status = "returned"
        /\ ~sink.conn
        /\ sink.internal # "ready")
       => \E k \in 1..Len(sink.backlog) : sink.backlog[k].n = libcall.event.n
    /\ sink.conn
       => \A k \in 1..Len(sink.backlogged) :
             Count(sink.inserted, sink.backlogged[k]) = 1
    /\ \A i, j \in 1..Len(sink.inserted) :
          i < j => sink.inserted[i] < sink.inserted[j]

\* C39 (as stated): a row that is no longer in the events table is a row whose
\* own delivery was answered with HTTP 200.
C39_DeletedMeansDelivered ==
    \A k \in 1..Len(sink.inserted) :
       (\A i \in 1..Len(sink.db) : sink.db[i].n # sink.inserted[k])
       => sink.inserted[k] \in sink.delivered

\* C36 (as stated): check_integrity releases the dummy partition it mounts:
\* when it has returned or raised, dummy is mounted only if it was mounted
\* before the call.
C36_DummyReleased ==
    (libcall.name = "check_integrity" /\ partid_dummy \in mounted)
    => partid_dummy \in libcall.before

====
